---- MODULE Spec2Model ----
(***************************************************************************)
(* BaseApp's ABCI surface (baseapp/abci.go) as a state machine: InitChain, *)
(* FinalizeBlock (synchronous and through the optimistic-execution         *)
(* scheduler), internalFinalizeBlock in its cancellation stages, and       *)
(* Commit, over a root multistore with cache branches.                     *)
(*                                                                         *)
(* The consensus engine is the environment.  It issues InitChain at most   *)
(* once, as the first call of the process; it issues Commit only after     *)
(* a FinalizeBlock that returned a response; a FinalizeBlock that returned *)
(* an error may be followed by another FinalizeBlock.  A Go panic ends the *)
(* process (phase = "crashed").                                            *)
(***************************************************************************)
EXTENDS Integers, Sequences, FiniteSets, TLC

VARIABLES
    cfg,                 \* BaseApp's static configuration (haltHeight, haltTime, initChainer, ...)
    cms,                 \* app.cms, the root CommitMultiStore
    initialHeight,       \* app.initialHeight
    finalizeBlockState,  \* app.finalizeBlockState (nil flag, branch, context)
    checkState,          \* app.checkState
    prepareProposalState, \* app.prepareProposalState
    processProposalState, \* app.processProposalState
    mtx,                 \* app.checkState.mtx
    optimisticExec,      \* app.optimisticExec, with the stage of its goroutine
    phase,               \* where the consensus engine is: idle, waitOE, finalized, crashed
    started,             \* some ABCI call has been made on this process
    pending,             \* the FinalizeBlock call blocked in WaitResult
    ifb,                 \* what the last internalFinalizeBlock invocation did
    last                 \* the last ABCI call that returned, and what it returned

vars == <<cfg, cms, initialHeight, finalizeBlockState, checkState, prepareProposalState,
          processProposalState, mtx, optimisticExec, phase, started, pending, ifb, last>>

-----------------------------------------------------------------------------
(* Bounds *)

MaxHeight == 2       \* versions committed in a run
MaxInitial == 2      \* largest RequestInitChain.InitialHeight
MaxTxs == 3          \* longest transaction list of the transaction-list specification
NumKeys == 2         \* validator public keys of the InitChain specification
MaxPower == 2        \* validator powers of the InitChain specification
IntBits == 19        \* bits of the scaled int64 and uint64
MaxRetain == 3       \* largest small value of a retention constraint
MaxCommitHeight == 4 \* largest small commit height of the retention specification
MaxHalt == 2         \* largest halt height and halt time; block times go one beyond
MaxFormat == 3       \* largest snapshot format offered
MaxChunks == 4       \* largest chunk index applied

Heights == 0 .. (MaxHeight + 1)
InitialHeights == 0 .. MaxInitial

-----------------------------------------------------------------------------
(* Values *)

\* Raw transactions: "a" and "b" decode and execute, "f" decodes and fails in
\* execution, "x" does not decode.  The transaction "p", outside TxIds, executes
\* and stores new consensus parameters.
TxIds == {"a", "b", "f", "x"}

Hooks == {"preBlock", "beginBlock", "endBlock"}
Faults == Hooks \cup {"none"}

RECURSIVE SeqsUpTo(_, _)
SeqsUpTo(S, n) ==
    IF n = 0 THEN {<<>>}
    ELSE LET shorter == SeqsUpTo(S, n - 1)
         IN shorter \cup {Append(s, x) : s \in {t \in shorter : Len(t) = n - 1}, x \in S}

\* A RequestFinalizeBlock: Fault names the hook that returns an error on this block.
Request(h, txs, fault, t) == [Height |-> h, Txs |-> txs, Fault |-> fault, Time |-> t]
NoRequest == Request(0, <<>>, "none", 0)

\* req.Hash, the digest of the block: collision free, so equal digests mean equal blocks.
BlockHash(req) == <<req.Height, req.Txs, req.Fault, req.Time>>

\* sha256 of the empty byte string, and the hash of a store content.
EmptyHash == <<"e3b0c44298fc1c149afbf4c8996fb92427ae41e4649b934ca495991b7852b855">>
NilHash == <<>>
HashOf(content) == <<"sha256", content>>

\* Consensus parameters: <<>> is nil, otherwise <<[MaxGas, MaxAgeNumBlocks]>>.
NilParams == <<>>
Params(maxGas, maxAge) == <<[MaxGas |-> maxGas, MaxAgeNumBlocks |-> maxAge]>>

\* The parameters the transaction "p" stores.
UpdatedParams == Params(20, 1)

\* Store content: the writes applied and the stored consensus parameters.
EmptyContent == [w |-> {}, cp |-> NilParams]
Tag(h, kind, name) == <<h, kind, name>>

\* A cache branch over a parent: its pending writes.
EmptyBranch == [w |-> {}, cp |-> NilParams]
BranchView(parent, ms) ==
    [w |-> parent.w \cup ms.w, cp |-> IF ms.cp # NilParams THEN ms.cp ELSE parent.cp]

\* sdk.Context, the fields the lifecycle reads and writes.
Context(h) == [height |-> h, hash |-> NilHash, cp |-> NilParams, gasLimit |-> 0]

NilState == [nil |-> TRUE, ms |-> EmptyBranch, ctx |-> Context(0)]

\* app.setState: a fresh branch of app.cms and a context for the header.
setState(header) == [nil |-> FALSE, ms |-> EmptyBranch, ctx |-> Context(header.Height)]

\* app.cms.LastCommitID() and app.LastBlockHeight().
LastCommitID == [Version |-> cms.version, Hash |-> cms.hash]
CommitIDIsZero(id) == id.Version = 0 /\ id.Hash = NilHash
LastBlockHeight == cms.version

\* app.GetConsensusParams(ctx): read through the context's branch.
GetConsensusParams(st) == BranchView(cms.working, st.ms).cp

\* app.getBlockGasMeter(ctx): the limit of the block gas meter, 0 for the infinite meter.
getBlockGasMeter(st) ==
    LET cp == GetConsensusParams(st)
    IN IF cp # NilParams /\ cp[1].MaxGas > 0 THEN cp[1].MaxGas ELSE 0

-----------------------------------------------------------------------------
(* checkHalt and validateFinalizeBlockHeight *)

NoError == "nil"

\* int64 and uint64, scaled to IntBits bits: uint64(x) of a signed x, int64(x)
\* of an unsigned x, and the wrapping subtraction of two int64.
ToUint64(x) == x % (2 ^ IntBits)
ToInt64(x) ==
    LET m == x % (2 ^ IntBits)
    IN IF m >= 2 ^ (IntBits - 1) THEN m - 2 ^ IntBits ELSE m
Sub64(a, b) == ToInt64(a - b)
MaxUint64 == 2 ^ IntBits - 1
MaxInt64 == 2 ^ (IntBits - 1) - 1

ErrHalt == "halt per configuration"

\* time is the block time in Unix seconds.
checkHaltInclusive(height, time) ==
    IF \/ cfg.haltHeight > 0 /\ ToUint64(height) >= cfg.haltHeight
       \/ cfg.haltTime > 0 /\ time >= ToInt64(cfg.haltTime)
    THEN ErrHalt
    ELSE NoError

checkHalt(height, time) ==
    IF \/ cfg.haltHeight > 0 /\ ToUint64(height) > cfg.haltHeight
       \/ cfg.haltTime > 0 /\ time > ToInt64(cfg.haltTime)
    THEN ErrHalt
    ELSE NoError

ExpectedHeight(lastBlockHeight, initHeight) ==
    IF lastBlockHeight = 0 /\ initHeight > 1 THEN initHeight ELSE lastBlockHeight + 1

validateFinalizeBlockHeightOffByOne(req) ==
    IF req.Height < 1 THEN "invalid height"
    ELSE IF req.Height < ExpectedHeight(LastBlockHeight, initialHeight)
         THEN "invalid height; expected" ELSE NoError

validateFinalizeBlockHeight(req) ==
    IF req.Height < 1 THEN "invalid height"
    ELSE IF req.Height # ExpectedHeight(LastBlockHeight, initialHeight)
         THEN "invalid height; expected" ELSE NoError

-----------------------------------------------------------------------------
(* Collaborators: hooks, decoder, transaction executor *)

\* app.txDecoder: TRUE when the raw transaction decodes.
txDecoder(rawTx) == rawTx # "x"

\* abci.ExecTxResult.
ExecTxResult(code, gasWanted, gasUsed, data, events) ==
    [Code |-> code, GasWanted |-> gasWanted, GasUsed |-> gasUsed, Data |-> data,
     Events |-> events]

\* sdkerrors.ErrTxDecode has ABCI code 2.
ErrTxDecodeCode == 2

\* sdkerrors.ResponseExecTxResultWithEvents(ErrTxDecode, 0, 0, nil, false).
DecodeFailure == ExecTxResult(ErrTxDecodeCode, 0, 0, "", <<>>)

\* app.deliverTx(rawTx) on the finalize branch: the result, and the branch afterwards.
\* A transaction that fails in execution leaves no write behind.
deliverTx(fbs, rawTx) ==
    IF rawTx = "f"
    THEN [fbs |-> fbs, result |-> ExecTxResult(1, 1, 1, rawTx, <<>>)]
    ELSE [fbs |-> [fbs EXCEPT !.ms.w = @ \cup {Tag(fbs.ctx.height, "tx", rawTx)},
                              !.ms.cp = IF rawTx = "p" THEN UpdatedParams ELSE @],
          result |-> ExecTxResult(0, 1, 1, rawTx, <<<<"tx", rawTx>>>>)]

\* What a hook that returns no error writes and emits.  The application's
\* hook named by cfg.paramHook also stores new consensus parameters.
HookWrite(fbs, name) ==
    [fbs EXCEPT !.ms.w = @ \cup {Tag(fbs.ctx.height, "hook", name)},
                !.ms.cp = IF cfg.paramHook = name THEN UpdatedParams ELSE @]
HookEvent(name) == <<"hook", name>>

-----------------------------------------------------------------------------
(* internalFinalizeBlock, in the stages its cancellation checks cut it into *)

NilResponse ==
    [nil |-> TRUE, Events |-> <<>>, TxResults |-> <<>>, ConsensusParamUpdates |-> NilParams,
     AppHash |-> NilHash]

\* The locals of one invocation.  hooks and executed record what it ran.
NewRun(req) ==
    [req |-> req, pc |-> "start", i |-> 1, events |-> <<>>, txResults |-> <<>>,
     hooks |-> <<>>, executed |-> 0, res |-> NilResponse, err |-> NoError]
NoRun == [NewRun(NoRequest) EXCEPT !.pc = "done"]

ErrCancelled == "context canceled"

\* return nil, err
ReturnError(st, err) == [st EXCEPT !.run.pc = "done", !.run.err = err]

\* Lines 983-1012: the finalize context gets header, consensus parameters and
\* block gas meter; the check state gets the gas meter and the header hash.
PrepareContexts(st) ==
    LET req == st.run.req
        fbs0 == IF st.fbs.nil THEN setState([Height |-> req.Height]) ELSE st.fbs
        fbs1 == [fbs0 EXCEPT !.ctx = [height |-> req.Height, hash |-> BlockHash(req),
                                      cp |-> GetConsensusParams(fbs0), gasLimit |-> @.gasLimit]]
        gas == getBlockGasMeter(fbs1)
    IN [st EXCEPT !.fbs = [fbs1 EXCEPT !.ctx.gasLimit = gas],
                  !.cs = IF st.cs.nil THEN st.cs
                         ELSE [st.cs EXCEPT !.ctx.gasLimit = gas, !.ctx.hash = BlockHash(req)]]

\* Lines 1014-1039: preBlock, beginBlock, the first cancellation check.
RunBeginHooks(st, cancelled) ==
    LET req == st.run.req
        st1 == [st EXCEPT !.run.hooks = Append(@, "preBlock")]
        st2 == [st1 EXCEPT !.fbs = HookWrite(@, "preBlock"),
                           !.run.events = Append(@, HookEvent("preBlock")),
                           !.run.hooks = Append(@, "beginBlock")]
        st3 == [st2 EXCEPT !.fbs = HookWrite(@, "beginBlock")]
    IN IF req.Fault = "preBlock" THEN ReturnError(st1, "preBlock failed")
       ELSE IF req.Fault = "beginBlock" THEN ReturnError(st2, "beginBlock failed")
       ELSE IF cancelled THEN ReturnError(st3, ErrCancelled)
       ELSE [st3 EXCEPT !.run.events = Append(@, HookEvent("beginBlock")),
                        !.fbs.ctx.gasLimit = getBlockGasMeter(st3.fbs),
                        !.run.pc = "txs"]

\* Lines 956-1039.
IFBStartStateFirst(st, cancelled) ==
    LET req == st.run.req
        st1 == PrepareContexts(st)
    IN IF checkHalt(req.Height, req.Time) # NoError
       THEN ReturnError(st1, checkHalt(req.Height, req.Time))
       ELSE IF validateFinalizeBlockHeight(req) # NoError
       THEN ReturnError(st1, validateFinalizeBlockHeight(req))
       ELSE RunBeginHooks(st1, cancelled)

IFBStart(st, cancelled) ==
    LET req == st.run.req
    IN IF checkHalt(req.Height, req.Time) # NoError
       THEN ReturnError(st, checkHalt(req.Height, req.Time))
       ELSE IF validateFinalizeBlockHeight(req) # NoError
       THEN ReturnError(st, validateFinalizeBlockHeight(req))
       ELSE RunBeginHooks(PrepareContexts(st), cancelled)

\* Lines 1048-1075, one iteration of the loop.
IFBTxSkipUndecodable(st, cancelled) ==
    LET rawTx == st.run.req.Txs[st.run.i]
        d == deliverTx(st.fbs, rawTx)
        st1 == [st EXCEPT !.run.i = @ + 1]
    IN IF ~txDecoder(rawTx) THEN st1
       ELSE IF cancelled
       THEN ReturnError([st1 EXCEPT !.fbs = d.fbs, !.run.executed = @ + 1], ErrCancelled)
       ELSE [st1 EXCEPT !.fbs = d.fbs, !.run.executed = @ + 1,
                        !.run.txResults = Append(@, d.result)]

IFBTxStopAtUndecodable(st, cancelled) ==
    LET rawTx == st.run.req.Txs[st.run.i]
        d == deliverTx(st.fbs, rawTx)
        st1 == [st EXCEPT !.run.i = @ + 1]
    IN IF ~txDecoder(rawTx)
       THEN [st1 EXCEPT !.run.txResults = Append(@, DecodeFailure),
                        !.run.i = Len(st.run.req.Txs) + 1]
       ELSE IF cancelled
       THEN ReturnError([st1 EXCEPT !.fbs = d.fbs, !.run.executed = @ + 1], ErrCancelled)
       ELSE [st1 EXCEPT !.fbs = d.fbs, !.run.executed = @ + 1,
                        !.run.txResults = Append(@, d.result)]

IFBTx(st, cancelled) ==
    LET rawTx == st.run.req.Txs[st.run.i]
        decoded == txDecoder(rawTx)
        d == deliverTx(st.fbs, rawTx)
        st1 == IF decoded
               THEN [st EXCEPT !.fbs = d.fbs, !.run.executed = @ + 1, !.run.i = @ + 1]
               ELSE [st EXCEPT !.run.i = @ + 1]
        response == IF decoded THEN d.result ELSE DecodeFailure
    IN IF cancelled THEN ReturnError(st1, ErrCancelled)
       ELSE [st1 EXCEPT !.run.txResults = Append(@, response)]

\* Lines 1078-1099: endBlock, the last cancellation check, the response.
IFBEndIgnoreCancel(st, cancelled) ==
    LET req == st.run.req
        st1 == [st EXCEPT !.run.hooks = Append(@, "endBlock")]
        st2 == [st1 EXCEPT !.fbs = HookWrite(@, "endBlock")]
        events == Append(st2.run.events, HookEvent("endBlock"))
    IN IF req.Fault = "endBlock" THEN ReturnError(st1, "endBlock failed")
       ELSE [st2 EXCEPT !.run.pc = "done",
                        !.run.events = events,
                        !.run.res = [nil |-> FALSE, Events |-> events,
                                     TxResults |-> st2.run.txResults,
                                     ConsensusParamUpdates |-> GetConsensusParams(st2.fbs),
                                     AppHash |-> NilHash]]

IFBEnd(st, cancelled) ==
    LET req == st.run.req
        st1 == [st EXCEPT !.run.hooks = Append(@, "endBlock")]
        st2 == [st1 EXCEPT !.fbs = HookWrite(@, "endBlock")]
        events == Append(st2.run.events, HookEvent("endBlock"))
    IN IF req.Fault = "endBlock" THEN ReturnError(st1, "endBlock failed")
       ELSE IF cancelled THEN ReturnError(st2, ErrCancelled)
       ELSE [st2 EXCEPT !.run.pc = "done",
                        !.run.events = events,
                        !.run.res = [nil |-> FALSE, Events |-> events,
                                     TxResults |-> st2.run.txResults,
                                     ConsensusParamUpdates |-> GetConsensusParams(st2.fbs),
                                     AppHash |-> NilHash]]

\* One stage of internalFinalizeBlock, up to and including its cancellation check.
IFBStage(st, cancelled) ==
    IF st.run.pc = "start" THEN IFBStart(st, cancelled)
    ELSE IF st.run.pc = "txs" /\ st.run.i <= Len(st.run.req.Txs) THEN IFBTx(st, cancelled)
    ELSE IFBEnd(st, cancelled)

\* internalFinalizeBlock(context.Background(), req): never cancelled, run to its
\* return, one stage after the other.
RECURSIVE internalFinalizeBlock(_)
internalFinalizeBlock(st) ==
    IF st.run.pc = "done" THEN st
    ELSE CHOOSE r \in {internalFinalizeBlock(next) : next \in {IFBStage(st, FALSE)}} : TRUE

\* What an invocation did, as the ifb variable records it.
IFBRecord(before, after, lastHeight, initHeight) ==
    [valid |-> TRUE, req |-> after.run.req, lastBlockHeight |-> lastHeight,
     initialHeight |-> initHeight, returned |-> after.run.pc = "done",
     err |-> after.run.err, resNil |-> after.run.res.nil,
     hooks |-> after.run.hooks, executed |-> after.run.executed,
     wrote |-> after.fbs # before.fbs \/ after.cs # before.cs]
NoIFB ==
    [valid |-> FALSE, req |-> NoRequest, lastBlockHeight |-> 0, initialHeight |-> 0,
     returned |-> FALSE, err |-> NoError, resNil |-> TRUE, hooks |-> <<>>, executed |-> 0,
     wrote |-> FALSE]

-----------------------------------------------------------------------------
(* The root multistore *)

\* rootmulti.Store.Commit: the working content becomes the next version.
NextVersion(c) ==
    IF c.version = 0 /\ c.initialVersion > 1 THEN c.initialVersion ELSE c.version + 1

StoreCommit(c) ==
    [c EXCEPT !.version = NextVersion(c), !.committed = c.working, !.hash = HashOf(c.working),
              !.versions = @ \cup {<<NextVersion(c), c.working>>}]

\* The store before its first commit: the working content, the content of the
\* last commit, and the content of every committed version.
EmptyStore ==
    [version |-> 0, initialVersion |-> 0, working |-> EmptyContent, committed |-> EmptyContent,
     hash |-> NilHash, versions |-> {}]

\* app.workingHash: the finalize branch is written into app.cms, then the hash
\* of app.cms is taken.  The result is the store, the branch and the hash.
workingHashBeforeWrite(c, fbs) ==
    [cms |-> c, fbs |-> fbs, hash |-> HashOf(c.working)]

workingHash(c, fbs) ==
    LET written == [c EXCEPT !.working = BranchView(c.working, fbs.ms)]
    IN [cms |-> written, fbs |-> [fbs EXCEPT !.ms = EmptyBranch],
        hash |-> HashOf(written.working)]

\* app.GetBlockRetentionHeight(commitHeight), read with the finalize state's context.
minNonZero(x, y) == IF x = 0 THEN y ELSE IF y = 0 THEN x ELSE IF x < y THEN x ELSE y

GetBlockRetentionHeightNoEarlyReturn(commitHeight) ==
    LET cp == GetConsensusParams(finalizeBlockState)
        r0 == IF cp # NilParams /\ cp[1].MaxAgeNumBlocks > 0
              THEN Sub64(commitHeight, cp[1].MaxAgeNumBlocks) ELSE 0
        r1 == IF cfg.snapshotManager /\ cfg.snapshotRetention > 0
              THEN minNonZero(r0, Sub64(commitHeight, cfg.snapshotRetention)) ELSE r0
        r2 == minNonZero(r1, Sub64(commitHeight, ToInt64(cfg.minRetainBlocks)))
    IN IF r2 <= 0 THEN 0 ELSE r2

GetBlockRetentionHeight(commitHeight) ==
    IF cfg.minRetainBlocks = 0 THEN 0
    ELSE LET cp == GetConsensusParams(finalizeBlockState)
             r0 == IF cp # NilParams /\ cp[1].MaxAgeNumBlocks > 0
                   THEN Sub64(commitHeight, cp[1].MaxAgeNumBlocks) ELSE 0
             r1 == IF cfg.snapshotManager /\ cfg.snapshotRetention > 0
                   THEN minNonZero(r0, Sub64(commitHeight, cfg.snapshotRetention)) ELSE r0
             r2 == minNonZero(r1, Sub64(commitHeight, ToInt64(cfg.minRetainBlocks)))
         IN IF r2 <= 0 THEN 0 ELSE r2

-----------------------------------------------------------------------------
(* What the last call returned *)

NoInit ==
    [InitialHeight |-> 0, Validators |-> <<>>, returned |-> <<>>, AppHash |-> NilHash,
     storeEmpty |-> TRUE, lastHash |-> NilHash]
\* halt records whether the call invoked app.halt().
NoCommit == [RetainHeight |-> 0, Version |-> 0, Hash |-> NilHash, halt |-> FALSE]

\* abci.RequestQuery: Path as strings.Split(req.Path, "/") gives it, and how the
\* callee behaves (Fault: none, error, panic).
QueryRequest(path, h, prove, fault) ==
    [Path |-> path, Height |-> h, Prove |-> prove, Fault |-> fault]
\* abci.ResponseQuery.
ResponseQuery(code, h, value) == [Code |-> code, Height |-> h, Value |-> value]
\* What a Query did: the route taken, the callee invoked (gRPC handler, store
\* query, Simulate, peer filter), the height in the request handed to the route,
\* the height of the query context, and whether a version of the store was loaded
\* or read.  view is the store content the callee reads: <<>> when it reads none.
QueryOutcome(res, route, called, handlerHeight, ctxHeight, storeRead, panicked) ==
    [res |-> res, route |-> route, called |-> called, handlerHeight |-> handlerHeight,
     ctxHeight |-> ctxHeight, storeRead |-> storeRead, panicked |-> panicked, view |-> <<>>]
NoQuery ==
    [req |-> QueryRequest(<<>>, 0, FALSE, "none"), latest |-> 0,
     out |-> QueryOutcome(ResponseQuery("OK", 0, ""), "none", "none", 0, 0, FALSE, FALSE)]

\* abci.RequestPrepareProposal and abci.RequestProcessProposal.
ProposalRequest(h, txs) == [Height |-> h, Txs |-> txs]
\* What a proposal call did: how the application's handler behaved, the store
\* content its context showed, the writes of the mode state that the call
\* discarded, and the response (Txs of PrepareProposal, Status of ProcessProposal).
NoProposal ==
    [req |-> ProposalRequest(0, <<>>), handler |-> "none", view |-> EmptyContent,
     discarded |-> {}, recovered |-> FALSE, Txs |-> <<>>, Status |-> "none"]

\* abci.Snapshot as offered: nil, or a height, a format and metadata bytes that
\* decode ("ok") or do not ("garbage").
NilSnapshot == [nil |-> TRUE, Height |-> 0, Format |-> 0, Metadata |-> "ok"]
Snapshot(height, format, metadata) ==
    [nil |-> FALSE, Height |-> height, Format |-> format, Metadata |-> metadata]
RequestOfferSnapshot(snapshot) == [Snapshot |-> snapshot]
RequestApplySnapshotChunk(index, sender) == [Index |-> index, Sender |-> sender]
\* abci.ResponseOfferSnapshot and abci.ResponseApplySnapshotChunk in one record.
SnapshotResponse(result, refetch, reject) ==
    [Result |-> result, RefetchChunks |-> refetch, RejectSenders |-> reject]
\* What a snapshot call did: its request, what the snapshot manager answered
\* (err, "none" if it was not called) and the response.
NoSnapshotCall ==
    [offer |-> RequestOfferSnapshot(NilSnapshot), chunk |-> RequestApplySnapshotChunk(0, ""),
     err |-> "none", res |-> SnapshotResponse("none", <<>>, <<>>)]

\* What a CheckTx read as the check state's context: the context it got, the
\* contexts the state held before and after the write in progress (equal if
\* there was none), and whether the read fell inside a SetContext.
NoCheckTx ==
    [mode |-> "none", ctx |-> Context(0), old |-> Context(0), new |-> Context(0),
     overlapped |-> FALSE]

Last(op) ==
    [op |-> op, req |-> NoRequest, res |-> NilResponse, err |-> NoError, path |-> "none",
     stale |-> FALSE, discarded |-> "none", panic |-> NoError, init |-> NoInit,
     commit |-> NoCommit, query |-> NoQuery, proposal |-> NoProposal,
     snapshot |-> NoSnapshotCall, checkTx |-> NoCheckTx]

-----------------------------------------------------------------------------
(* InitChain *)

ChainID == "chain"

\* sort.Sort(abci.ValidatorUpdates(vs)): ascending public keys.
RECURSIVE SortValidators(_)
SortValidators(vs) ==
    IF Len(vs) = 0 THEN <<>>
    ELSE LET m == CHOOSE i \in 1 .. Len(vs) : \A j \in 1 .. Len(vs) : vs[i].PubKey <= vs[j].PubKey
             rest == [k \in 1 .. (Len(vs) - 1) |-> IF k < m THEN vs[k] ELSE vs[k + 1]]
         IN <<vs[m]>> \o SortValidators(rest)

\* Lines 83-102: the panic message of the sanity check, NoError when it passes.
ValidatorsSanityCheck(reqVals, resVals) ==
    IF Len(reqVals) > 0
    THEN IF Len(reqVals) # Len(resVals)
         THEN "len(RequestInitChain.Validators) != len(GenesisValidators)"
         ELSE IF \E i \in 1 .. Len(resVals) :
                    SortValidators(resVals)[i] # SortValidators(reqVals)[i]
              THEN "genesisValidators != req.Validators"
              ELSE NoError
    ELSE NoError

\* Lines 104-114.
InitChainAppHash ==
    IF ~CommitIDIsZero(LastCommitID) THEN LastCommitID.Hash ELSE EmptyHash

InitRequest(chain, h, vals, cp) ==
    [ChainId |-> chain, InitialHeight |-> h, Validators |-> vals, ConsensusParams |-> cp]

\* Lines 56-61: app.cms.SetInitialVersion for an initial height above 1.
InitChainStoreUnset(req) == cms

InitChainStore(req) ==
    IF req.InitialHeight > 1 THEN [cms EXCEPT !.initialVersion = req.InitialHeight] ELSE cms

\* out is what the application's initChainer returns as res.Validators.
InitChain(req, out) ==
    /\ phase = "idle"
    /\ ~started
    /\ started' = TRUE
    /\ UNCHANGED <<cfg, optimisticExec, pending, ifb,
                   prepareProposalState, processProposalState, mtx>>
    /\ IF req.ChainId # ChainID
       THEN /\ phase' = "crashed"
            /\ last' = [Last("InitChain") EXCEPT !.panic = "invalid chain-id on InitChain"]
            /\ UNCHANGED <<cms, initialHeight, finalizeBlockState, checkState>>
       ELSE LET initHeader == [Height |-> IF req.InitialHeight > 1 THEN req.InitialHeight ELSE 0]
                fbs0 == setState(initHeader)
                fbs1 == IF req.ConsensusParams # NilParams
                        THEN [fbs0 EXCEPT !.ms.cp = req.ConsensusParams] ELSE fbs0
                fbs2 == [fbs1 EXCEPT !.ctx.gasLimit = 0,
                                     !.ms.w = @ \cup {Tag(initHeader.Height, "hook", "genesis")}]
                sanity == ValidatorsSanityCheck(req.Validators, out)
                seen == [InitialHeight |-> req.InitialHeight, Validators |-> req.Validators,
                         returned |-> out, AppHash |-> NilHash,
                         storeEmpty |-> CommitIDIsZero(LastCommitID),
                         lastHash |-> LastCommitID.Hash]
            IN /\ initialHeight' = req.InitialHeight
               /\ cms' = InitChainStore(req)
               /\ checkState' = setState(initHeader)
               /\ IF ~cfg.initChainer
                  THEN /\ finalizeBlockState' = fbs1
                       /\ phase' = "idle"
                       /\ last' = [Last("InitChain") EXCEPT !.init = [seen EXCEPT !.returned = <<>>]]
                  ELSE /\ finalizeBlockState' = fbs2
                       /\ IF sanity # NoError
                          THEN /\ phase' = "crashed"
                               /\ last' = [Last("InitChain") EXCEPT !.panic = sanity, !.init = seen]
                          ELSE /\ phase' = "idle"
                               /\ last' = [Last("InitChain") EXCEPT
                                              !.init = [seen EXCEPT !.AppHash = InitChainAppHash]]

-----------------------------------------------------------------------------
(* FinalizeBlock *)

\* Lines 1144-1148 and 1130-1134: a non-nil response gets the working hash as
\* AppHash.  workingHash dereferences the finalize state: with a nil finalize
\* state the call panics.  Lines 1113-1120: on return the deferred function
\* hands app.finalizeBlockState.Context(), *req and *res to every streaming
\* listener; with a listener registered and a nil res the dereference panics.
ReturnFinalizeBlock(req, st, path, stale, discarded) ==
    LET res == st.run.res
        wh == workingHash(cms, st.fbs)
        call == [Last("FinalizeBlock") EXCEPT !.req = req, !.path = path, !.stale = stale,
                                              !.discarded = discarded]
    IN /\ checkState' = st.cs
       /\ IF res.nil /\ cfg.abciListeners
          THEN /\ finalizeBlockState' = st.fbs
               /\ cms' = cms
               /\ phase' = "crashed"
               /\ last' = [call EXCEPT !.panic = "nil pointer dereference"]
          ELSE IF res.nil
          THEN /\ finalizeBlockState' = st.fbs
               /\ cms' = cms
               /\ phase' = "idle"
               /\ last' = [call EXCEPT !.err = st.run.err]
          ELSE IF st.fbs.nil
          THEN /\ finalizeBlockState' = st.fbs
               /\ cms' = cms
               /\ phase' = "crashed"
               /\ last' = [call EXCEPT !.panic = "nil pointer dereference"]
          ELSE /\ finalizeBlockState' = wh.fbs
               /\ cms' = wh.cms
               /\ phase' = "finalized"
               /\ last' = [call EXCEPT !.err = st.run.err,
                                        !.res = [res EXCEPT !.AppHash = wh.hash]]

\* Optimistic-execution scheduler: Initialized, AbortIfNeeded, Reset.
NoOE == [initialized |-> FALSE, request |-> NoRequest, aborted |-> FALSE, run |-> NoRun,
         consumed |-> FALSE, invocations |-> 0]
OEInitialized == optimisticExec.initialized
OERunning == optimisticExec.initialized /\ optimisticExec.run.pc # "done"
AbortIfNeeded(reqHash) == BlockHash(optimisticExec.request) # reqHash

NoPending == [req |-> NoRequest, aborted |-> FALSE]

\* FinalizeBlock with no speculative run: lines 1142-1148.
FinalizeBlockRun(req) ==
    /\ LET st0 == [fbs |-> finalizeBlockState, cs |-> checkState, run |-> NewRun(req)]
           st1 == internalFinalizeBlock(st0)
       IN /\ ifb' = IFBRecord(st0, st1, LastBlockHeight, initialHeight)
          /\ ReturnFinalizeBlock(req, st1, IF finalizeBlockState.nil THEN "replay" ELSE "sync",
                                 FALSE, "none")
    /\ started' = TRUE

FinalizeBlockSync(req) ==
    /\ phase = "idle"
    /\ ~OEInitialized
    /\ cms.version < MaxHeight
    /\ FinalizeBlockRun(req)
    /\ UNCHANGED <<cfg, initialHeight, optimisticExec, pending,
                   prepareProposalState, processProposalState, mtx>>

\* The scheduler's Start: internalFinalizeBlock is spawned on req with a
\* cancellable context.  It is issued for a height whose finalize state has not
\* been created, and never while a run is in flight.
OEExecute(req) ==
    /\ phase = "idle"
    /\ ~OERunning
    /\ finalizeBlockState.nil
    /\ cms.version < MaxHeight
    /\ optimisticExec' = [initialized |-> TRUE, request |-> req, aborted |-> FALSE,
                          run |-> NewRun(req), consumed |-> FALSE, invocations |-> 0]
    /\ started' = TRUE
    /\ ifb' = NoIFB
    /\ last' = Last("none")
    /\ UNCHANGED <<cfg, cms, initialHeight, finalizeBlockState, checkState, phase, pending,
                   prepareProposalState, processProposalState, mtx>>

\* One stage of the speculative goroutine.
OEStep ==
    /\ OERunning
    /\ phase \in {"idle", "waitOE"}
    /\ LET st0 == [fbs |-> finalizeBlockState, cs |-> checkState, run |-> optimisticExec.run]
           st1 == IFBStage(st0, optimisticExec.aborted)
           rec == IFBRecord(st0, st1, LastBlockHeight, initialHeight)
           first == st0.run.pc = "start"
       IN /\ finalizeBlockState' = st1.fbs
          /\ checkState' = st1.cs
          /\ optimisticExec' = [optimisticExec EXCEPT
                                   !.run = st1.run,
                                   !.invocations = IF first THEN @ + 1 ELSE @]
          /\ ifb' = IF first THEN rec ELSE [rec EXCEPT !.wrote = ifb.wrote \/ rec.wrote]
    /\ UNCHANGED <<cfg, cms, initialHeight, phase, started, pending, last,
                   prepareProposalState, processProposalState, mtx>>

\* FinalizeBlock with an initialized scheduler, up to WaitResult: lines 1122-1126.
FinalizeBlockEnter(req) ==
    /\ phase = "idle"
    /\ OEInitialized
    /\ cms.version < MaxHeight
    /\ pending' = [req |-> req, aborted |-> AbortIfNeeded(BlockHash(req))]
    /\ optimisticExec' = [optimisticExec EXCEPT !.aborted = @ \/ AbortIfNeeded(BlockHash(req))]
    /\ phase' = "waitOE"
    /\ started' = TRUE
    /\ last' = Last("none")
    /\ UNCHANGED <<cfg, cms, initialHeight, finalizeBlockState, checkState, ifb,
                   prepareProposalState, processProposalState, mtx>>

\* After WaitResult, the run not aborted: lines 1129-1135.
ReturnSpeculativeRerun(req) ==
    LET st0 == [fbs |-> finalizeBlockState, cs |-> checkState, run |-> NewRun(req)]
        st1 == internalFinalizeBlock(st0)
    IN /\ ifb' = IFBRecord(st0, st1, LastBlockHeight, initialHeight)
       /\ optimisticExec' = [optimisticExec EXCEPT !.consumed = TRUE, !.invocations = @ + 1]
       /\ ReturnFinalizeBlock(req, st1, "oe", optimisticExec.consumed, "none")

ReturnSpeculative(req) ==
    /\ ifb' = ifb
    /\ optimisticExec' = [optimisticExec EXCEPT !.consumed = TRUE]
    /\ ReturnFinalizeBlock(req, [fbs |-> finalizeBlockState, cs |-> checkState,
                                 run |-> optimisticExec.run], "oe", optimisticExec.consumed,
                           "none")

\* What became of the speculative run that is thrown away.
Discarded ==
    IF ~optimisticExec.run.res.nil THEN "completed"
    ELSE IF optimisticExec.run.err = ErrCancelled THEN "cancelled" ELSE "failed"

\* After WaitResult, the run aborted: lines 1137-1148.
RunAfterAbortKeepState(req) ==
    LET st0 == [fbs |-> finalizeBlockState, cs |-> checkState, run |-> NewRun(req)]
        st1 == internalFinalizeBlock(st0)
    IN /\ ifb' = IFBRecord(st0, st1, LastBlockHeight, initialHeight)
       /\ optimisticExec' = NoOE
       /\ ReturnFinalizeBlock(req, st1, "aborted", FALSE, Discarded)

RunAfterAbort(req) ==
    LET st0 == [fbs |-> NilState, cs |-> checkState, run |-> NewRun(req)]
        st1 == internalFinalizeBlock(st0)
    IN /\ ifb' = IFBRecord(st0, st1, LastBlockHeight, initialHeight)
       /\ optimisticExec' = NoOE
       /\ ReturnFinalizeBlock(req, st1, "aborted", FALSE, Discarded)

FinalizeBlockResumeNoWait ==
    /\ phase = "waitOE"
    /\ IF pending.aborted THEN RunAfterAbort(pending.req) ELSE ReturnSpeculative(pending.req)
    /\ pending' = NoPending
    /\ UNCHANGED <<cfg, initialHeight, started,
                   prepareProposalState, processProposalState, mtx>>

\* FinalizeBlock from the return of WaitResult on.
FinalizeBlockResume ==
    /\ phase = "waitOE"
    /\ optimisticExec.run.pc = "done"
    /\ IF pending.aborted THEN RunAfterAbort(pending.req) ELSE ReturnSpeculative(pending.req)
    /\ pending' = NoPending
    /\ UNCHANGED <<cfg, initialHeight, started,
                   prepareProposalState, processProposalState, mtx>>

-----------------------------------------------------------------------------
(* Commit *)

\* Commit, lines 349-376.  No statement of it calls app.halt(), whatever the
\* halt height is.
CommitKeepFinalizeState ==
    /\ phase = "finalized"
    /\ LET header == [Height |-> finalizeBlockState.ctx.height]
           retainHeight == GetBlockRetentionHeight(header.Height)
           committed == StoreCommit(cms)
       IN /\ cms' = committed
          /\ checkState' = setState(header)
          /\ finalizeBlockState' = finalizeBlockState
          /\ last' = [Last("Commit") EXCEPT
                         !.req = last.req,
                         !.res = last.res,
                         !.path = last.path,
                         !.stale = last.stale,
                         !.discarded = last.discarded,
                         !.commit = [RetainHeight |-> retainHeight,
                                     Version |-> committed.version,
                                     Hash |-> committed.hash,
                                     halt |-> FALSE]]
    /\ phase' = "idle"
    /\ ifb' = NoIFB
    /\ UNCHANGED <<cfg, initialHeight, optimisticExec, started, pending,
                   prepareProposalState, processProposalState, mtx>>

Commit ==
    /\ phase = "finalized"
    /\ LET header == [Height |-> finalizeBlockState.ctx.height]
           retainHeight == GetBlockRetentionHeight(header.Height)
           committed == StoreCommit(cms)
       IN /\ cms' = committed
          /\ checkState' = setState(header)
          /\ finalizeBlockState' = NilState
          /\ last' = [Last("Commit") EXCEPT
                         !.req = last.req,
                         !.res = last.res,
                         !.path = last.path,
                         !.stale = last.stale,
                         !.discarded = last.discarded,
                         !.commit = [RetainHeight |-> retainHeight,
                                     Version |-> committed.version,
                                     Hash |-> committed.hash,
                                     halt |-> FALSE]]
    /\ phase' = "idle"
    /\ ifb' = NoIFB
    /\ UNCHANGED <<cfg, initialHeight, optimisticExec, started, pending,
                   prepareProposalState, processProposalState, mtx>>

-----------------------------------------------------------------------------
(* PrepareProposal and ProcessProposal *)

\* The application's handlers return ("ok") or panic ("panic"); both write one
\* key through their context first.
ProposalWrite(height, mode) == Tag(height, "proposal", mode)

\* Filter of a sequence.
RECURSIVE SelectTxs(_)
SelectTxs(txs) ==
    IF txs = <<>> THEN <<>>
    ELSE IF txDecoder(Head(txs)) THEN <<Head(txs)>> \o SelectTxs(Tail(txs))
    ELSE SelectTxs(Tail(txs))

\* app.prepareProposal returns the transactions that decode; app.processProposal
\* accepts a proposal whose transactions all decode.
prepareProposalHandler(req) == SelectTxs(req.Txs)
processProposalHandler(req) ==
    IF \A i \in 1 .. Len(req.Txs) : txDecoder(req.Txs[i]) THEN "ACCEPT" ELSE "REJECT"

\* getContextForProposal(ctx, height): at the initial height a cache context of
\* the finalize state's context, whose writes go to a branch that is never
\* written back; otherwise the context of the mode state.  view is the store
\* content the context shows, sink where its writes go.
getContextForProposal(st, height) ==
    IF height = initialHeight
    THEN [view |-> BranchView(cms.working, finalizeBlockState.ms), sink |-> "cache"]
    ELSE [view |-> BranchView(cms.working, st.ms), sink |-> "state"]

\* The context of the mode state after lines 184-192 and 241-250, and the
\* state once the handler has written.
ProposalState(st, c, height, mode) ==
    [st EXCEPT !.ctx = [height |-> height, hash |-> NilHash, cp |-> c.view.cp,
                        gasLimit |-> IF c.view.cp # NilParams /\ c.view.cp[1].MaxGas > 0
                                     THEN c.view.cp[1].MaxGas ELSE 0],
               !.ms.w = IF c.sink = "state" THEN @ \cup {ProposalWrite(height, mode)} ELSE @]

PrepareProposalKeepState(req, handler) ==
    /\ phase = "idle"
    /\ started' = TRUE
    /\ LET fresh == IF prepareProposalState.nil THEN setState([Height |-> 0])
                    ELSE prepareProposalState
           c == getContextForProposal(fresh, req.Height)
           call == [Last("PrepareProposal") EXCEPT
                       !.proposal.req = req, !.proposal.handler = handler,
                       !.proposal.discarded = prepareProposalState.ms.w]
       IN IF req.Height < 1
          THEN /\ prepareProposalState' = fresh
               /\ phase' = "crashed"
               /\ last' = [call EXCEPT !.panic = "PrepareProposal called with invalid height"]
          ELSE IF req.Height = initialHeight /\ finalizeBlockState.nil
          THEN /\ prepareProposalState' = fresh
               /\ phase' = "crashed"
               /\ last' = [call EXCEPT !.panic = "nil pointer dereference"]
          ELSE /\ prepareProposalState' = ProposalState(fresh, c, req.Height, "prepare")
               /\ phase' = phase
               /\ last' = [call EXCEPT
                              !.proposal.view = c.view,
                              !.proposal.recovered = (handler = "panic"),
                              !.proposal.Txs = IF handler = "panic" THEN req.Txs
                                               ELSE prepareProposalHandler(req)]
    /\ UNCHANGED <<cfg, cms, initialHeight, finalizeBlockState, checkState,
                   processProposalState, optimisticExec, pending, ifb, mtx>>

\* PrepareProposal, lines 169-209, with app.prepareProposal set.
PrepareProposal(req, handler) ==
    /\ phase = "idle"
    /\ started' = TRUE
    /\ LET fresh == setState([Height |-> 0])
           c == getContextForProposal(fresh, req.Height)
           call == [Last("PrepareProposal") EXCEPT
                       !.proposal.req = req, !.proposal.handler = handler,
                       !.proposal.discarded = prepareProposalState.ms.w]
       IN IF req.Height < 1
          THEN /\ prepareProposalState' = fresh
               /\ phase' = "crashed"
               /\ last' = [call EXCEPT !.panic = "PrepareProposal called with invalid height"]
          ELSE IF req.Height = initialHeight /\ finalizeBlockState.nil
          THEN /\ prepareProposalState' = fresh
               /\ phase' = "crashed"
               /\ last' = [call EXCEPT !.panic = "nil pointer dereference"]
          ELSE /\ prepareProposalState' = ProposalState(fresh, c, req.Height, "prepare")
               /\ phase' = phase
               /\ last' = [call EXCEPT
                              !.proposal.view = c.view,
                              !.proposal.recovered = (handler = "panic"),
                              !.proposal.Txs = IF handler = "panic" THEN req.Txs
                                               ELSE prepareProposalHandler(req)]
    /\ UNCHANGED <<cfg, cms, initialHeight, finalizeBlockState, checkState,
                   processProposalState, optimisticExec, pending, ifb, mtx>>

ProcessProposalNoRecover(req, handler) ==
    /\ phase = "idle"
    /\ started' = TRUE
    /\ LET fresh == setState([Height |-> 0])
           c == getContextForProposal(fresh, req.Height)
           call == [Last("ProcessProposal") EXCEPT
                       !.proposal.req = req, !.proposal.handler = handler,
                       !.proposal.discarded = processProposalState.ms.w]
       IN IF req.Height < 1
          THEN /\ processProposalState' = processProposalState
               /\ phase' = "crashed"
               /\ last' = [call EXCEPT !.panic = "ProcessProposal called with invalid height"]
          ELSE IF req.Height = initialHeight /\ finalizeBlockState.nil
          THEN /\ processProposalState' = fresh
               /\ phase' = "crashed"
               /\ last' = [call EXCEPT !.panic = "nil pointer dereference"]
          ELSE /\ processProposalState' = ProposalState(fresh, c, req.Height, "process")
               /\ phase' = IF handler = "panic" THEN "crashed" ELSE phase
               /\ last' = [call EXCEPT
                              !.proposal.view = c.view,
                              !.panic = IF handler = "panic" THEN "handler panic" ELSE NoError,
                              !.proposal.Status = IF handler = "panic" THEN "none"
                                                  ELSE processProposalHandler(req)]
    /\ UNCHANGED <<cfg, cms, initialHeight, finalizeBlockState, checkState,
                   prepareProposalState, optimisticExec, pending, ifb, mtx>>

\* ProcessProposal, lines 226-267, with app.processProposal set.
ProcessProposal(req, handler) ==
    /\ phase = "idle"
    /\ started' = TRUE
    /\ LET fresh == setState([Height |-> 0])
           c == getContextForProposal(fresh, req.Height)
           call == [Last("ProcessProposal") EXCEPT
                       !.proposal.req = req, !.proposal.handler = handler,
                       !.proposal.discarded = processProposalState.ms.w]
       IN IF req.Height < 1
          THEN /\ processProposalState' = processProposalState
               /\ phase' = "crashed"
               /\ last' = [call EXCEPT !.panic = "ProcessProposal called with invalid height"]
          ELSE IF req.Height = initialHeight /\ finalizeBlockState.nil
          THEN /\ processProposalState' = fresh
               /\ phase' = "crashed"
               /\ last' = [call EXCEPT !.panic = "nil pointer dereference"]
          ELSE /\ processProposalState' = ProposalState(fresh, c, req.Height, "process")
               /\ phase' = phase
               /\ last' = [call EXCEPT
                              !.proposal.view = c.view,
                              !.proposal.recovered = (handler = "panic"),
                              !.proposal.Status = IF handler = "panic" THEN "REJECT"
                                                  ELSE processProposalHandler(req)]
    /\ UNCHANGED <<cfg, cms, initialHeight, finalizeBlockState, checkState,
                   prepareProposalState, optimisticExec, pending, ifb, mtx>>

-----------------------------------------------------------------------------
(* State sync: OfferSnapshot and ApplySnapshotChunk *)

\* snapshottypes.SnapshotFromABCI: fails if the metadata does not unmarshal.
SnapshotFromABCI(snapshot) == IF snapshot.Metadata = "ok" THEN "nil" ELSE "ErrUnmarshal"

\* Whether the handler gets as far as calling the manager.
RestoreCalled(req) ==
    cfg.snapshotManager /\ ~req.Snapshot.nil /\ SnapshotFromABCI(req.Snapshot) = "nil"

OfferSnapshotAbortInvalid(req, err) ==
    IF ~cfg.snapshotManager THEN SnapshotResponse("ABORT", <<>>, <<>>)
    ELSE IF req.Snapshot.nil THEN SnapshotResponse("REJECT", <<>>, <<>>)
    ELSE IF SnapshotFromABCI(req.Snapshot) # "nil" THEN SnapshotResponse("REJECT", <<>>, <<>>)
    ELSE IF err = "nil" THEN SnapshotResponse("ACCEPT", <<>>, <<>>)
    ELSE IF err = "ErrUnknownFormat" THEN SnapshotResponse("REJECT_FORMAT", <<>>, <<>>)
    ELSE SnapshotResponse("ABORT", <<>>, <<>>)

\* The response of OfferSnapshot, err being what Restore returns if called.
ResponseOfferSnapshot(req, err) ==
    IF ~cfg.snapshotManager THEN SnapshotResponse("ABORT", <<>>, <<>>)
    ELSE IF req.Snapshot.nil THEN SnapshotResponse("REJECT", <<>>, <<>>)
    ELSE IF SnapshotFromABCI(req.Snapshot) # "nil" THEN SnapshotResponse("REJECT", <<>>, <<>>)
    ELSE IF err = "nil" THEN SnapshotResponse("ACCEPT", <<>>, <<>>)
    ELSE IF err = "ErrUnknownFormat" THEN SnapshotResponse("REJECT_FORMAT", <<>>, <<>>)
    ELSE IF err = "ErrInvalidMetadata" THEN SnapshotResponse("REJECT", <<>>, <<>>)
    ELSE SnapshotResponse("ABORT", <<>>, <<>>)

\* OfferSnapshot, lines 495-541.
OfferSnapshot(req, err) ==
    /\ phase = "idle"
    /\ last' = [Last("OfferSnapshot") EXCEPT
                   !.snapshot.offer = req,
                   !.snapshot.err = IF RestoreCalled(req) THEN err ELSE "none",
                   !.snapshot.res = ResponseOfferSnapshot(req, err)]
    /\ UNCHANGED <<cfg, cms, initialHeight, finalizeBlockState, checkState,
                   prepareProposalState, processProposalState, optimisticExec, phase,
                   started, pending, ifb, mtx>>

ApplySnapshotChunkRefetchNext(req, err) ==
    IF ~cfg.snapshotManager THEN SnapshotResponse("ABORT", <<>>, <<>>)
    ELSE IF err = "nil" THEN SnapshotResponse("ACCEPT", <<>>, <<>>)
    ELSE IF err = "ErrChunkHashMismatch"
    THEN SnapshotResponse("RETRY", <<req.Index + 1>>, <<req.Sender>>)
    ELSE SnapshotResponse("ABORT", <<>>, <<>>)

\* The response of ApplySnapshotChunk, err being what RestoreChunk returns if
\* called.
ResponseApplySnapshotChunk(req, err) ==
    IF ~cfg.snapshotManager THEN SnapshotResponse("ABORT", <<>>, <<>>)
    ELSE IF err = "nil" THEN SnapshotResponse("ACCEPT", <<>>, <<>>)
    ELSE IF err = "ErrChunkHashMismatch"
    THEN SnapshotResponse("RETRY", <<req.Index>>, <<req.Sender>>)
    ELSE SnapshotResponse("ABORT", <<>>, <<>>)

\* ApplySnapshotChunk, lines 544-572.
ApplySnapshotChunk(req, err) ==
    /\ phase = "idle"
    /\ last' = [Last("ApplySnapshotChunk") EXCEPT
                   !.snapshot.chunk = req,
                   !.snapshot.err = IF cfg.snapshotManager THEN err ELSE "none",
                   !.snapshot.res = ResponseApplySnapshotChunk(req, err)]
    /\ UNCHANGED <<cfg, cms, initialHeight, finalizeBlockState, checkState,
                   prepareProposalState, processProposalState, optimisticExec, phase,
                   started, pending, ifb, mtx>>

-----------------------------------------------------------------------------
(* The check state's context under concurrent CheckTx *)

\* The context FinalizeBlock(req) stores in the check state at lines 1008-1012.
NewCheckContext(req) ==
    internalFinalizeBlock([fbs |-> finalizeBlockState, cs |-> checkState,
                           run |-> NewRun(req)]).cs.ctx

\* state.SetContext as far as st.mtx.Lock() (part_002 line 28), called by a
\* synchronous FinalizeBlock at line 1009: the write lock is held and st.ctx is
\* about to be assigned.
SetContextLock(req) ==
    /\ phase = "idle"
    /\ ~OEInitialized
    /\ cms.version < MaxHeight
    /\ ~checkState.nil
    /\ validateFinalizeBlockHeight(req) = NoError
    /\ mtx = "unlocked"
    /\ mtx' = "locked"
    /\ phase' = "setContext"
    /\ pending' = [req |-> req, aborted |-> FALSE]
    /\ UNCHANGED <<cfg, cms, initialHeight, finalizeBlockState, checkState,
                   prepareProposalState, processProposalState, optimisticExec, started,
                   ifb, last>>

\* st.ctx = ctx and the deferred st.mtx.Unlock() (part_002 lines 29-30), then
\* the rest of FinalizeBlock.
SetContextStore ==
    /\ phase = "setContext"
    /\ mtx = "locked"
    /\ mtx' = "unlocked"
    /\ pending' = NoPending
    /\ FinalizeBlockRun(pending.req)
    /\ UNCHANGED <<cfg, initialHeight, optimisticExec, prepareProposalState,
                   processProposalState>>

\* What a read of st.ctx returns: the context held, or, while SetContext is
\* assigning it, the old value, the new one or a mix of the two.
ContextReads ==
    IF mtx = "locked"
    THEN LET old == checkState.ctx
             new == NewCheckContext(pending.req)
         IN {old, new, [old EXCEPT !.hash = new.hash], [old EXCEPT !.gasLimit = new.gasLimit]}
    ELSE {checkState.ctx}

\* CheckTx on the mempool connection (lines 275-301), as far as runTx reads the
\* check state's context through state.Context() (part_002 lines 22-24), which
\* takes no lock.  A request of an unknown type panics before runTx.
CheckTx(type) ==
    /\ phase \in {"idle", "setContext", "finalized"}
    /\ ~checkState.nil
    /\ IF type = "Unknown"
       THEN /\ phase' = "crashed"
            /\ last' = [Last("CheckTx") EXCEPT !.panic = "unknown RequestCheckTx type"]
       ELSE /\ phase' = phase
            /\ \E ctx \in ContextReads :
                  last' = [last EXCEPT
                              !.op = "CheckTx",
                              !.checkTx =
                                  [mode |-> IF type = "New" THEN "check" ELSE "recheck",
                                   ctx |-> ctx, old |-> checkState.ctx,
                                   new |-> IF mtx = "locked" THEN NewCheckContext(pending.req)
                                           ELSE checkState.ctx,
                                   overlapped |-> mtx = "locked"]]
    /\ UNCHANGED <<cfg, cms, initialHeight, finalizeBlockState, checkState,
                   prepareProposalState, processProposalState, mtx, optimisticExec,
                   started, pending, ifb>>

-----------------------------------------------------------------------------
(* Query *)

\* sdkerrors.QueryResult(err, app.trace): code and codespace of the error; the
\* Height field is left at its zero value.
QueryResult(code) == ResponseQuery(code, 0, "")

\* The response of a route that fails before it calls anything.
Rejected(code, route, handlerHeight) ==
    QueryOutcome(QueryResult(code), route, "none", handlerHeight, 0, FALSE, FALSE)

\* A panic on the way; Query's deferred recover turns it into ErrPanic.
Panicked(route, called, handlerHeight, ctxHeight, storeRead) ==
    QueryOutcome(QueryResult("ErrPanic"), route, called, handlerHeight, ctxHeight, storeRead,
                 TRUE)

\* The versions the store can load: from its first version to the latest.
VersionExists(h) ==
    /\ h >= (IF cms.initialVersion > 1 THEN cms.initialVersion ELSE 1)
    /\ h <= cms.version

\* qms.CacheMultiStoreWithVersion(height): the content committed as that version.
CacheMultiStoreWithVersion(h) == (CHOOSE v \in cms.versions : v[1] = h)[2]

\* app.CreateQueryContext(height, prove), with app.qms unset: the error, or the
\* height of the context and the store it reads (ms).
CreateQueryContextOnWorkingStore(height, prove) ==
    LET lastBlockHeight == cms.version
        h == IF height = 0 THEN lastBlockHeight ELSE height
        fail(code, read) ==
            [err |-> code, height |-> 0, storeRead |-> read, panic |-> FALSE, ms |-> <<>>]
    IN IF height < 0 THEN fail("ErrInvalidRequest", FALSE)
       ELSE IF lastBlockHeight = 0 THEN fail("ErrInvalidHeight", FALSE)
       ELSE IF height > lastBlockHeight THEN fail("ErrInvalidHeight", FALSE)
       ELSE IF h <= 1 /\ prove THEN fail("ErrInvalidRequest", FALSE)
       ELSE IF ~VersionExists(h) THEN fail("ErrInvalidRequest", TRUE)
       ELSE [err |-> NoError, height |-> h, storeRead |-> TRUE, panic |-> checkState.nil,
             ms |-> <<cms.working>>]

CreateQueryContext(height, prove) ==
    LET lastBlockHeight == cms.version
        h == IF height = 0 THEN lastBlockHeight ELSE height
        fail(code, read) ==
            [err |-> code, height |-> 0, storeRead |-> read, panic |-> FALSE, ms |-> <<>>]
    IN IF height < 0 THEN fail("ErrInvalidRequest", FALSE)
       ELSE IF lastBlockHeight = 0 THEN fail("ErrInvalidHeight", FALSE)
       ELSE IF height > lastBlockHeight THEN fail("ErrInvalidHeight", FALSE)
       ELSE IF h <= 1 /\ prove THEN fail("ErrInvalidRequest", FALSE)
       ELSE IF ~VersionExists(h) THEN fail("ErrInvalidRequest", TRUE)
       ELSE [err |-> NoError, height |-> h, storeRead |-> TRUE, panic |-> checkState.nil,
             ms |-> <<CacheMultiStoreWithVersion(h)>>]

\* gRPCErrorToSDKError for an error that carries no gRPC status.
gRPCErrorToSDKError == "ErrInvalidRequest"

\* handleQueryGRPC.  The registered handler answers with the height of its context.
handleQueryGRPC(req) ==
    LET c == CreateQueryContext(req.Height, req.Prove)
    IN IF c.err # NoError
       THEN QueryOutcome(QueryResult(c.err), "grpc", "none", req.Height, 0, c.storeRead, FALSE)
       ELSE IF c.panic THEN Panicked("grpc", "none", req.Height, 0, TRUE)
       ELSE IF req.Fault = "panic" THEN Panicked("grpc", "grpcHandler", req.Height, c.height, TRUE)
       ELSE IF req.Fault = "error"
       THEN QueryOutcome(ResponseQuery(gRPCErrorToSDKError, req.Height, ""), "grpc",
                         "grpcHandler", req.Height, c.height, TRUE, FALSE)
       ELSE [QueryOutcome(ResponseQuery("OK", c.height, "grpc"), "grpc", "grpcHandler",
                          req.Height, c.height, TRUE, FALSE) EXCEPT !.view = c.ms]

\* handleQueryApp.
handleQueryApp(path, req) ==
    IF Len(path) >= 2
    THEN IF path[2] = "simulate"
         THEN IF req.Fault = "panic" THEN Panicked("app", "Simulate", req.Height, 0, FALSE)
              ELSE IF req.Fault = "error"
              THEN QueryOutcome(QueryResult("ErrSimulate"), "app", "Simulate", req.Height, 0,
                                FALSE, FALSE)
              ELSE QueryOutcome(ResponseQuery("OK", req.Height, "simulation"), "app",
                                "Simulate", req.Height, 0, FALSE, FALSE)
         ELSE IF path[2] = "version"
         THEN QueryOutcome(ResponseQuery("OK", req.Height, "version"), "app", "none",
                           req.Height, 0, FALSE, FALSE)
         ELSE Rejected("ErrUnknownRequest", "app", req.Height)
    ELSE Rejected("ErrUnknownRequest", "app", req.Height)

\* queryable.Query(req) of the root store: the code it answers with.
StoreQuery(req) ==
    IF req.Fault = "error" THEN "ErrStore"
    ELSE IF req.Height = 0 \/ VersionExists(req.Height) THEN "OK"
    ELSE "ErrInvalidRequest"

\* What an answered store query reads: the version asked for, the latest
\* version for a height of 0, nothing before the first commit.
StoreQueryView(req) ==
    IF StoreQuery(req) # "OK" THEN <<>>
    ELSE IF req.Height # 0 THEN <<CacheMultiStoreWithVersion(req.Height)>>
    ELSE IF cms.version # 0 THEN <<CacheMultiStoreWithVersion(cms.version)>>
    ELSE <<>>

\* handleQueryStore.
handleQueryStoreNoProveCheck(path, req) ==
    IF req.Fault = "panic" THEN Panicked("store", "storeQuery", req.Height, 0, TRUE)
    ELSE [QueryOutcome(ResponseQuery(StoreQuery(req), req.Height,
                                     IF StoreQuery(req) = "OK" THEN "store" ELSE ""),
                       "store", "storeQuery", req.Height, 0, TRUE, FALSE)
             EXCEPT !.view = StoreQueryView(req)]

handleQueryStore(path, req) ==
    IF req.Height <= 1 /\ req.Prove THEN Rejected("ErrInvalidRequest", "store", req.Height)
    ELSE IF req.Fault = "panic" THEN Panicked("store", "storeQuery", req.Height, 0, TRUE)
    ELSE [QueryOutcome(ResponseQuery(StoreQuery(req), req.Height,
                                     IF StoreQuery(req) = "OK" THEN "store" ELSE ""),
                       "store", "storeQuery", req.Height, 0, TRUE, FALSE)
             EXCEPT !.view = StoreQueryView(req)]

\* abci.ResponseQuery{}: every field at its zero value, the code of success included.
ZeroResponse == ResponseQuery("OK", 0, "")

\* app.FilterPeerByAddrPort(info), with an address filter registered that
\* refuses the peer "banned" and panics on the peer "panic".
FilterPeerByAddrPort(info) ==
    IF info = "panic" THEN Panicked("p2p", "peerFilter", 0, 0, FALSE)
    ELSE QueryOutcome(ResponseQuery(IF info = "banned" THEN "ErrUnauthorized" ELSE "OK", 0, ""),
                      "p2p", "peerFilter", 0, 0, FALSE, FALSE)

\* app.FilterPeerByID(info), with no identifier filter registered.
FilterPeerByID(info) == QueryOutcome(ZeroResponse, "p2p", "none", 0, 0, FALSE, FALSE)

\* handleQueryP2P.
handleQueryP2P(path) ==
    IF Len(path) < 4 THEN Rejected("ErrUnknownRequest", "p2p", 0)
    ELSE IF path[2] = "filter"
    THEN IF path[3] = "addr" THEN FilterPeerByAddrPort(path[4])
         ELSE IF path[3] = "id" THEN FilterPeerByID(path[4])
         ELSE QueryOutcome(ZeroResponse, "p2p", "none", 0, 0, FALSE, FALSE)
    ELSE Rejected("ErrUnknownRequest", "p2p", 0)

\* SplitABCIQueryPath on the split path: a leading empty segment is dropped.
SplitABCIQueryPath(requestPath) ==
    IF Len(requestPath) > 0 /\ requestPath[1] = "" THEN Tail(requestPath) ELSE requestPath

BroadcastTxPath == <<"", "cosmos.tx.v1beta1.Service", "BroadcastTx">>
\* A service whose name is a prefix of the slash-split dispatch.
StoreServicePath == <<"", "store", "Get">>
\* The paths app.grpcQueryRouter.Route knows: a handler is registered for the
\* broadcast path and for a path the slash-split dispatch would route as well.
GRPCRoutes == {<<"", "cosmos.bank.v1beta1.Query", "Balance">>, BroadcastTxPath, StoreServicePath}

\* Lines 411-414: a height of 0 is replaced by the latest committed height.
InjectLatestKeepZero(req) == req

InjectLatest(req) ==
    IF req.Height = 0 THEN [req EXCEPT !.Height = LastBlockHeight] ELSE req

QueryRouteGRPCFirst(req0) ==
    LET req == InjectLatest(req0)
        path == SplitABCIQueryPath(req.Path)
    IN IF req.Path \in GRPCRoutes THEN handleQueryGRPC(req)
       ELSE IF req.Path = BroadcastTxPath THEN Rejected("ErrInvalidRequest", "none", req.Height)
       ELSE IF Len(path) = 0 THEN Rejected("ErrUnknownRequest", "none", req.Height)
       ELSE IF path[1] = "app" THEN handleQueryApp(path, req)
       ELSE IF path[1] = "store" THEN handleQueryStore(path, req)
       ELSE IF path[1] = "p2p" THEN handleQueryP2P(path)
       ELSE Rejected("ErrUnknownRequest", "none", req.Height)

\* Query, from the injection of the height to the response.
QueryRoute(req0) ==
    LET req == InjectLatest(req0)
        path == SplitABCIQueryPath(req.Path)
    IN IF req.Path = BroadcastTxPath THEN Rejected("ErrInvalidRequest", "none", req.Height)
       ELSE IF req.Path \in GRPCRoutes THEN handleQueryGRPC(req)
       ELSE IF Len(path) = 0 THEN Rejected("ErrUnknownRequest", "none", req.Height)
       ELSE IF path[1] = "app" THEN handleQueryApp(path, req)
       ELSE IF path[1] = "store" THEN handleQueryStore(path, req)
       ELSE IF path[1] = "p2p" THEN handleQueryP2P(path)
       ELSE Rejected("ErrUnknownRequest", "none", req.Height)

\* Query may arrive while a block is between FinalizeBlock and Commit.
QueryNoRecover(req) ==
    /\ phase \in {"idle", "finalized"}
    /\ phase' = IF QueryRoute(req).panicked THEN "crashed" ELSE phase
    /\ last' = [last EXCEPT !.op = "Query",
                            !.query = [req |-> req, latest |-> LastBlockHeight,
                                       out |-> QueryRoute(req)]]
    /\ UNCHANGED <<cfg, cms, initialHeight, finalizeBlockState, checkState, optimisticExec,
                   started, pending, ifb,
                   prepareProposalState, processProposalState, mtx>>

Query(req) ==
    /\ phase \in {"idle", "finalized"}
    /\ last' = [last EXCEPT !.op = "Query",
                            !.query = [req |-> req, latest |-> LastBlockHeight,
                                       out |-> QueryRoute(req)]]
    /\ UNCHANGED <<cfg, cms, initialHeight, finalizeBlockState, checkState, optimisticExec,
                   phase, started, pending, ifb,
                   prepareProposalState, processProposalState, mtx>>

-----------------------------------------------------------------------------
(* Specifications *)

Config(initChainer) ==
    [haltHeight |-> 0, haltTime |-> 0, minRetainBlocks |-> 0, snapshotManager |-> FALSE,
     snapshotRetention |-> 0, initChainer |-> initChainer, abciListeners |-> FALSE,
     paramHook |-> "none"]

Init ==
    /\ cfg = Config(TRUE)
    /\ cms = EmptyStore
    /\ initialHeight = 0
    /\ finalizeBlockState = NilState
    /\ checkState = NilState
    /\ optimisticExec = NoOE
    /\ phase = "idle"
    /\ started = FALSE
    /\ pending = NoPending
    /\ ifb = NoIFB
    /\ last = Last("none")
    /\ prepareProposalState = NilState
    /\ processProposalState = NilState
    /\ mtx = "unlocked"

\* The blocks of the lifecycle specification: two transaction lists, and a
\* block for each hook that fails.
BlockTxs == {<<"a">>, <<"x", "b">>}
Requests ==
    {Request(h, txs, "none", 1) : h \in Heights, txs \in BlockTxs}
        \cup {Request(h, <<"a">>, f, 1) : h \in Heights, f \in Hooks}

InitRequests == {InitRequest(ChainID, h, <<>>, NilParams) : h \in InitialHeights}

Next ==
    \/ \E req \in InitRequests : InitChain(req, <<>>)
    \/ \E req \in Requests : FinalizeBlockSync(req)
    \/ \E req \in Requests : OEExecute(req)
    \/ OEStep
    \/ \E req \in Requests : FinalizeBlockEnter(req)
    \/ FinalizeBlockResume
    \/ Commit

Spec == Init /\ [][Next]_vars

\* The lifecycle on fewer blocks, with the scheduling the runtime gives: the
\* speculative goroutine keeps being scheduled while it has a stage to run, and
\* a FinalizeBlock whose WaitResult can return does return.
FairRequests ==
    {Request(h, txs, "none", 1) : h \in 1 .. MaxHeight, txs \in {<<"a">>, <<"b">>}}
        \cup {Request(1, <<"a">>, "endBlock", 1)}

NextFair ==
    \/ InitChain(InitRequest(ChainID, 1, <<>>, NilParams), <<>>)
    \/ \E req \in FairRequests : FinalizeBlockSync(req)
    \/ \E req \in FairRequests : OEExecute(req)
    \/ OEStep
    \/ \E req \in FairRequests : FinalizeBlockEnter(req)
    \/ FinalizeBlockResume
    \/ Commit

SpecFair == Init /\ [][NextFair]_vars /\ WF_vars(OEStep) /\ WF_vars(FinalizeBlockResume)

\* The lifecycle with and without streaming listeners.
InitListeners ==
    /\ cfg \in {Config(TRUE), [Config(TRUE) EXCEPT !.abciListeners = TRUE]}
    /\ cms = EmptyStore
    /\ initialHeight = 0
    /\ finalizeBlockState = NilState
    /\ checkState = NilState
    /\ optimisticExec = NoOE
    /\ phase = "idle"
    /\ started = FALSE
    /\ pending = NoPending
    /\ ifb = NoIFB
    /\ last = Last("none")
    /\ prepareProposalState = NilState
    /\ processProposalState = NilState
    /\ mtx = "unlocked"

SpecListeners == InitListeners /\ [][Next]_vars

\* app.GetBlockRetentionHeight(commitHeight) called on its own.  Past the
\* early return it reads app.finalizeBlockState.ctx: a nil finalize state panics.
GetBlockRetentionHeightCall(commitHeight) ==
    /\ phase = "idle"
    /\ IF cfg.minRetainBlocks # 0 /\ finalizeBlockState.nil
       THEN /\ phase' = "crashed"
            /\ last' = [Last("GetBlockRetentionHeight") EXCEPT
                           !.req.Height = commitHeight,
                           !.panic = "nil pointer dereference"]
       ELSE /\ phase' = phase
            /\ last' = [Last("GetBlockRetentionHeight") EXCEPT
                           !.req.Height = commitHeight,
                           !.commit.RetainHeight = GetBlockRetentionHeight(commitHeight)]
    /\ UNCHANGED <<cfg, cms, initialHeight, finalizeBlockState, checkState, optimisticExec,
                   started, pending, ifb,
                   prepareProposalState, processProposalState, mtx>>

\* Retention: every configuration of the three constraints over small values,
\* the values at the ends of uint64, and the values of the documented scenario.
RetainValues == (0 .. MaxRetain) \cup {100000}
CommitHeights == (1 .. MaxCommitHeight) \cup {150000, MaxInt64}
RetentionConfigs ==
    {[Config(TRUE) EXCEPT !.minRetainBlocks = m, !.snapshotManager = sm, !.snapshotRetention = sr] :
        m \in (0 .. MaxRetain) \cup {MaxInt64 + 1, MaxUint64},
        sm \in BOOLEAN, sr \in 0 .. MaxRetain}

InitRetention ==
    /\ cfg \in {c \in RetentionConfigs : c.snapshotManager \/ c.snapshotRetention = 0}
    /\ cms = EmptyStore
    /\ initialHeight = 0
    /\ finalizeBlockState = NilState
    /\ checkState = NilState
    /\ optimisticExec = NoOE
    /\ phase = "idle"
    /\ started = FALSE
    /\ pending = NoPending
    /\ ifb = NoIFB
    /\ last = Last("none")
    /\ prepareProposalState = NilState
    /\ processProposalState = NilState
    /\ mtx = "unlocked"

NextRetention ==
    \/ \E cp \in {NilParams} \cup {Params(10, a) : a \in RetainValues} :
          InitChain(InitRequest(ChainID, 1, <<>>, cp), <<>>)
    \/ \E h \in CommitHeights : GetBlockRetentionHeightCall(h)

SpecRetention == InitRetention /\ [][NextRetention]_vars

\* Queries next to the synchronous lifecycle.
QueryHeights == (0 - 1) .. (MaxHeight + 1)
QueryPaths ==
    {<<"", "app", "version">>, <<"", "app", "simulate">>, <<"", "store", "bank", "key">>,
     <<"", "cosmos.bank.v1beta1.Query", "Balance">>}
\* Paths whose handling does not read the height.
OtherPaths ==
    {BroadcastTxPath, StoreServicePath, <<"", "custom", "x">>, <<"">>, <<"", "app">>, <<"", "app", "other">>,
     <<"", "p2p", "filter">>, <<"", "p2p", "ban", "addr", "peer">>,
     <<"", "p2p", "filter", "other", "peer">>, <<"", "p2p", "filter", "id", "peer">>}
        \cup {<<"", "p2p", "filter", "addr", info>> : info \in {"peer", "banned", "panic"}}
QueryRequests ==
    {QueryRequest(p, h, pr, "none") : p \in QueryPaths, h \in QueryHeights, pr \in BOOLEAN}
        \cup {QueryRequest(p, h, FALSE, f) :
                  p \in QueryPaths, h \in QueryHeights, f \in {"error", "panic"}}
        \cup {QueryRequest(p, h, FALSE, "none") : p \in OtherPaths, h \in {0, 1}}

NextQuery ==
    \/ \E req \in InitRequests : InitChain(req, <<>>)
    \/ \E h \in Heights : FinalizeBlockSync(Request(h, <<"a">>, "none", 1))
    \/ Commit
    \/ \E req \in QueryRequests : Query(req)

SpecQuery == Init /\ [][NextQuery]_vars

\* Halt: every configuration of halt height and halt time, blocks at every
\* time around the halt time.
HaltConfigs ==
    {[Config(TRUE) EXCEPT !.haltHeight = hh, !.haltTime = ht] :
        hh \in 0 .. MaxHalt, ht \in 0 .. MaxHalt}

InitHalt ==
    /\ cfg \in HaltConfigs
    /\ cms = EmptyStore
    /\ initialHeight = 0
    /\ finalizeBlockState = NilState
    /\ checkState = NilState
    /\ optimisticExec = NoOE
    /\ phase = "idle"
    /\ started = FALSE
    /\ pending = NoPending
    /\ ifb = NoIFB
    /\ last = Last("none")
    /\ prepareProposalState = NilState
    /\ processProposalState = NilState
    /\ mtx = "unlocked"

NextHalt ==
    \/ InitChain(InitRequest(ChainID, 1, <<>>, NilParams), <<>>)
    \/ \E h \in Heights, t \in 1 .. (MaxHalt + 1) : FinalizeBlockSync(Request(h, <<"a">>, "none", t))
    \/ Commit

SpecHalt == InitHalt /\ [][NextHalt]_vars

\* Consensus parameters: chains with and without stored parameters, blocks
\* with and without a transaction that updates them, every small
\* minRetainBlocks.
InitParams ==
    /\ cfg \in {[Config(TRUE) EXCEPT !.minRetainBlocks = m] : m \in 0 .. MaxRetain}
    /\ cms = EmptyStore
    /\ initialHeight = 0
    /\ finalizeBlockState = NilState
    /\ checkState = NilState
    /\ optimisticExec = NoOE
    /\ phase = "idle"
    /\ started = FALSE
    /\ pending = NoPending
    /\ ifb = NoIFB
    /\ last = Last("none")
    /\ prepareProposalState = NilState
    /\ processProposalState = NilState
    /\ mtx = "unlocked"

NextParams ==
    \/ \E cp \in {NilParams} \cup {Params(10, a) : a \in 0 .. MaxRetain} :
          InitChain(InitRequest(ChainID, 1, <<>>, cp), <<>>)
    \/ \E h \in Heights, txs \in {<<"a">>, <<"a", "p">>} :
          FinalizeBlockSync(Request(h, txs, "none", 1))
    \/ Commit

SpecParams == InitParams /\ [][NextParams]_vars

\* Consensus parameters changed by a hook: an application whose pre-block,
\* begin-block or end-block hook stores new parameters, or none of them.
InitParamHooks ==
    /\ cfg \in {[Config(TRUE) EXCEPT !.paramHook = h] : h \in Hooks \cup {"none"}}
    /\ cms = EmptyStore
    /\ initialHeight = 0
    /\ finalizeBlockState = NilState
    /\ checkState = NilState
    /\ optimisticExec = NoOE
    /\ phase = "idle"
    /\ started = FALSE
    /\ pending = NoPending
    /\ ifb = NoIFB
    /\ last = Last("none")
    /\ prepareProposalState = NilState
    /\ processProposalState = NilState
    /\ mtx = "unlocked"

NextParamHooks ==
    \/ \E cp \in {NilParams, Params(10, 0)} : InitChain(InitRequest(ChainID, 1, <<>>, cp), <<>>)
    \/ \E h \in Heights, txs \in {<<"a">>, <<"p", "a">>, <<"x", "b">>} :
          FinalizeBlockSync(Request(h, txs, "none", 1))
    \/ Commit

SpecParamHooks == InitParamHooks /\ [][NextParamHooks]_vars

\* Proposals next to the synchronous lifecycle: every height, handlers that
\* return and handlers that panic, proposals repeated at will.
ProposalRequests == {ProposalRequest(h, txs) : h \in Heights, txs \in {<<"a">>, <<"x", "b">>}}

NextProposals ==
    \/ \E req \in InitRequests : InitChain(req, <<>>)
    \/ \E req \in ProposalRequests, handler \in {"ok", "panic"} : PrepareProposal(req, handler)
    \/ \E req \in ProposalRequests, handler \in {"ok", "panic"} : ProcessProposal(req, handler)
    \/ \E h \in Heights : FinalizeBlockSync(Request(h, <<"a">>, "none", 1))
    \/ Commit

SpecProposals == Init /\ [][NextProposals]_vars

\* State sync: a node with and without a snapshot manager is offered every
\* snapshot and every chunk, with every outcome of the manager.
\* Restore and RestoreChunk answer nil, a sentinel error the handlers test with
\* errors.Is, or another error.
InitSnapshot ==
    /\ cfg \in {[Config(TRUE) EXCEPT !.snapshotManager = m] : m \in BOOLEAN}
    /\ cms = EmptyStore
    /\ initialHeight = 0
    /\ finalizeBlockState = NilState
    /\ checkState = NilState
    /\ prepareProposalState = NilState
    /\ processProposalState = NilState
    /\ mtx = "unlocked"
    /\ optimisticExec = NoOE
    /\ phase = "idle"
    /\ started = FALSE
    /\ pending = NoPending
    /\ ifb = NoIFB
    /\ last = Last("none")

NextSnapshot ==
    \/ \E err \in {"nil", "ErrUnknownFormat", "ErrInvalidMetadata", "ErrConflict"} :
          \/ OfferSnapshot(RequestOfferSnapshot(NilSnapshot), err)
          \/ \E h \in 1 .. MaxHeight, f \in 1 .. MaxFormat, m \in {"ok", "garbage"} :
                OfferSnapshot(RequestOfferSnapshot(Snapshot(h, f, m)), err)
    \/ \E i \in 0 .. MaxChunks, s \in {"", "peer1", "peer2", "peer3"},
          err \in {"nil", "ErrChunkHashMismatch", "ErrInvalidChunk"} :
          ApplySnapshotChunk(RequestApplySnapshotChunk(i, s), err)

SpecSnapshot == InitSnapshot /\ [][NextSnapshot]_vars

\* CheckTx on the mempool connection next to a synchronous FinalizeBlock on the
\* consensus connection, FinalizeBlock split at the update of the check state.
NextLock ==
    \/ \E cp \in {NilParams, Params(10, 0)} : InitChain(InitRequest(ChainID, 1, <<>>, cp), <<>>)
    \/ \E h \in Heights, txs \in {<<"a">>, <<"a", "p">>} :
          SetContextLock(Request(h, txs, "none", 1))
    \/ SetContextStore
    \/ \E type \in {"New", "Recheck", "Unknown"} : CheckTx(type)
    \/ Commit

SpecLock == Init /\ [][NextLock]_vars

\* Transaction lists: every list of at most MaxTxs raw transactions, as the first block.
TxRequests == {Request(1, txs, "none", 1) : txs \in SeqsUpTo(TxIds, MaxTxs)}

NextTxs ==
    \/ \E req \in TxRequests : FinalizeBlockSync(req)
    \/ Commit

SpecTxs == Init /\ [][NextTxs]_vars

\* InitChain: every pair of validator lists with distinct public keys, with and
\* without a registered initChainer.
Validator(k, p) == [PubKey |-> k, Power |-> p]
ValidatorLists ==
    {vs \in SeqsUpTo({Validator(k, p) : k \in 1 .. NumKeys, p \in 1 .. MaxPower}, NumKeys) :
        \A i, j \in 1 .. Len(vs) : i # j => vs[i].PubKey # vs[j].PubKey}

\* A store that was loaded with one committed version.
LoadedStore ==
    StoreCommit([EmptyStore EXCEPT !.working = [w |-> {Tag(1, "tx", "a")}, cp |-> NilParams]])

InitAnyConfig ==
    /\ cfg \in {Config(b) : b \in BOOLEAN}
    /\ cms \in {EmptyStore, LoadedStore}
    /\ initialHeight = 0
    /\ finalizeBlockState = NilState
    /\ checkState = NilState
    /\ optimisticExec = NoOE
    /\ phase = "idle"
    /\ started = FALSE
    /\ pending = NoPending
    /\ ifb = NoIFB
    /\ last = Last("none")
    /\ prepareProposalState = NilState
    /\ processProposalState = NilState
    /\ mtx = "unlocked"

NextInitChain ==
    \/ \E vs \in ValidatorLists, out \in ValidatorLists :
          InitChain(InitRequest(ChainID, 1, vs, Params(10, 0)), out)
    \/ InitChain(InitRequest("other-chain", 1, <<>>, NilParams), <<>>)

SpecInitChain == InitAnyConfig /\ [][NextInitChain]_vars

-----------------------------------------------------------------------------
(* Reference semantics of a block, stated directly on the request *)

\* The result the executor gives for one raw transaction.
RefTxResult(rawTx) ==
    IF rawTx = "x" THEN ExecTxResult(ErrTxDecodeCode, 0, 0, "", <<>>)
    ELSE IF rawTx = "f" THEN ExecTxResult(1, 1, 1, rawTx, <<>>)
    ELSE ExecTxResult(0, 1, 1, rawTx, <<<<"tx", rawTx>>>>)

RefTxResults(req) == [i \in 1 .. Len(req.Txs) |-> RefTxResult(req.Txs[i])]

\* The writes of a block that is executed to its end.
RefWrites(req) ==
    {Tag(req.Height, "hook", h) : h \in Hooks}
        \cup {Tag(req.Height, "tx", req.Txs[i]) :
                 i \in {j \in 1 .. Len(req.Txs) : req.Txs[j] \in {"a", "b"}}}

\* The store content after the block, executed on the content base.
RefContent(base, req) == [base EXCEPT !.w = @ \cup RefWrites(req)]

\* The writes a content holds for one height.
WritesAt(content, h) == {t \in content.w : t[1] = h}

Decodable(req) == {j \in 1 .. Len(req.Txs) : req.Txs[j] # "x"}

-----------------------------------------------------------------------------
(* Properties *)

InvalidHeight(rec) ==
    \/ rec.req.Height < 1
    \/ rec.req.Height # ExpectedHeight(rec.lastBlockHeight, rec.initialHeight)

\* C1: an internalFinalizeBlock invocation whose request height is below 1 or
\* differs from the expected height (the initial height when nothing is
\* committed and the initial height is above 1, otherwise the last committed
\* height plus one) returns an error and no response, runs no hook and no
\* transaction, and leaves the finalize state and the check state as they were.
C1_InvalidHeightRejected ==
    (ifb.valid /\ InvalidHeight(ifb))
        => /\ ifb.returned
           /\ ifb.err # NoError
           /\ ifb.resNil
           /\ ifb.hooks = <<>>
           /\ ifb.executed = 0
           /\ ~ifb.wrote

C1_Witness ==
    /\ ifb.valid
    /\ ifb.req.Height >= 1
    /\ InvalidHeight(ifb)
    /\ ifb.lastBlockHeight > 0
    /\ ~finalizeBlockState.nil
    /\ last.op = "FinalizeBlock"

CommitStep == phase = "finalized" /\ phase' = "idle"

\* C2: the Commit that follows a FinalizeBlock which returned a response for
\* height H makes the last committed version exactly H; the committed version
\* changes only in a Commit, and then to the next height (the initial height
\* for the first commit of a chain that starts above 1, otherwise the previous
\* version plus one), so no height is skipped and none is repeated.
C2_CommitAdvancesToHeight ==
    [][/\ CommitStep => /\ cms'.version = last.req.Height
                        /\ cms'.version = ExpectedHeight(cms.version, initialHeight)
                        /\ cms'.version > cms.version
       /\ cms'.version # cms.version => CommitStep]_vars

C2_Witness ==
    /\ last.op = "Commit"
    /\ cms.version = MaxHeight
    /\ last.req.Height = MaxHeight
    /\ ~last.res.nil

\* C3: a FinalizeBlock that returns a response through the reused optimistic
\* run, through the synchronous run after an aborted optimistic run, or through
\* a replay that found the finalize state nil, returns the AppHash and the
\* TxResults that the request determines on the last committed content.
C3_DeterministicResponse ==
    (last.op = "FinalizeBlock" /\ ~last.res.nil /\ last.path \in {"oe", "aborted", "replay"})
        => /\ last.res.AppHash = HashOf(RefContent(cms.committed, last.req))
           /\ last.res.TxResults = RefTxResults(last.req)

C3_Witness ==
    /\ last.op = "FinalizeBlock"
    /\ ~last.res.nil
    /\ last.path = "oe"
    /\ cms.version > 0
    /\ Len(last.req.Txs) = 2

\* C4: a FinalizeBlock that returns a response for N transactions returns N
\* TxResults, entry i for Txs[i]: ErrTxDecode with zero gas wanted and used for a
\* transaction that does not decode, the executor's result otherwise; every
\* transaction that decodes is executed, also after one that does not; and a
\* block of valid height whose hooks succeed returns a response whatever its
\* transactions do.
C4_OneResultPerTx ==
    /\ (last.op = "FinalizeBlock" /\ ~last.res.nil)
          => /\ Len(last.res.TxResults) = Len(last.req.Txs)
             /\ \A i \in 1 .. Len(last.req.Txs) :
                   /\ last.res.TxResults[i] = RefTxResult(last.req.Txs[i])
                   /\ ~txDecoder(last.req.Txs[i])
                         => /\ last.res.TxResults[i].Code = ErrTxDecodeCode
                            /\ last.res.TxResults[i].GasWanted = 0
                            /\ last.res.TxResults[i].GasUsed = 0
             /\ ifb.executed = Cardinality(Decodable(last.req))
    /\ (last.op = "FinalizeBlock" /\ ifb.valid /\ ~InvalidHeight(ifb) /\ ifb.req.Fault = "none")
          => ~last.res.nil

C4_Witness ==
    /\ last.op = "FinalizeBlock"
    /\ ~last.res.nil
    /\ last.req.Txs = <<"x", "f", "a">>

\* C5: when FinalizeBlock returns a response, every write of the finalize
\* branch is in the root store and the AppHash is the hash of that store; the
\* Commit that follows produces a commit identifier with that hash, and the
\* committed version holds every write of the block.
C5_AppHashAfterWrites ==
    /\ (last.op = "FinalizeBlock" /\ ~last.res.nil)
          => /\ finalizeBlockState.ms = EmptyBranch
             /\ RefWrites(last.req) \subseteq cms.working.w
             /\ last.res.AppHash = HashOf(cms.working)
    /\ (last.op = "Commit")
          => /\ last.commit.Hash = last.res.AppHash
             /\ last.commit.Version = last.req.Height
             /\ RefWrites(last.req) \subseteq cms.committed.w

C5_Witness ==
    /\ last.op = "Commit"
    /\ last.path = "replay"
    /\ last.req.Txs = <<"x", "b">>
    /\ Tag(last.req.Height, "tx", "b") \in cms.committed.w

InitChainReturned == last.op = "InitChain" /\ phase # "crashed"

\* C6: every InitChain call that returns yields the hash of the empty byte
\* string as AppHash when the store has no committed version and the last
\* committed hash otherwise, and never a nil AppHash, also when no initChainer
\* is registered.
C6_InitChainAppHash ==
    InitChainReturned
        => /\ last.init.AppHash =
                 (IF last.init.storeEmpty THEN EmptyHash ELSE last.init.lastHash)
           /\ last.init.AppHash # NilHash

C6_Witness ==
    /\ InitChainReturned
    /\ ~cfg.initChainer
    /\ last.init.AppHash = NilHash

SanityPanics ==
    {"len(RequestInitChain.Validators) != len(GenesisValidators)",
     "genesisValidators != req.Validators"}

ValidatorSet(vs) == {vs[i] : i \in 1 .. Len(vs)}

\* C7: InitChain fails on the validator sanity check exactly when the
\* validators of the request and the validators the initChainer returns are
\* both non-empty and are not equal as sets; when either is empty the check
\* does not fail InitChain.
C7_SanityCheckBothNonEmpty ==
    (last.op = "InitChain" /\ cfg.initChainer)
        => ((last.panic \in SanityPanics)
               <=> /\ Len(last.init.Validators) > 0
                   /\ Len(last.init.returned) > 0
                   /\ ValidatorSet(last.init.Validators) # ValidatorSet(last.init.returned))

C7_Witness ==
    /\ last.op = "InitChain"
    /\ cfg.initChainer
    /\ phase = "crashed"
    /\ last.panic = "len(RequestInitChain.Validators) != len(GenesisValidators)"
    /\ Len(last.init.Validators) > 0
    /\ last.init.returned = <<>>

FirstHeight == IF initialHeight > 1 THEN initialHeight ELSE 1

\* C8: after InitChain with initial height h > 1 the initial version of the
\* store is h, while nothing is committed an invocation is accepted exactly when
\* its height is h (it reaches the hooks; any other height is rejected before
\* them), and the first Commit produces version h; with initial
\* height 0 or 1 the initial version of the store stays unset and the first
\* accepted height and the first version are 1.
C8_InitialHeight ==
    /\ [](/\ cms.initialVersion = (IF initialHeight > 1 THEN initialHeight ELSE 0)
          /\ (ifb.valid /\ ifb.returned /\ ifb.lastBlockHeight = 0)
                => /\ ifb.req.Height # FirstHeight
                      => ifb.err # NoError /\ ifb.resNil /\ ifb.hooks = <<>> /\ ~ifb.wrote
                   /\ ifb.req.Height = FirstHeight
                      => /\ ifb.hooks # <<>>
                         /\ ifb.err \notin {"invalid height", "invalid height; expected"})
    /\ [][(cms.version = 0 /\ cms'.version # 0)
             => /\ cms'.version = FirstHeight
                /\ last.req.Height = FirstHeight
                /\ last'.commit.Version = FirstHeight]_vars

C8_Witness ==
    /\ initialHeight > 1
    /\ last.op = "Commit"
    /\ cms.version = initialHeight
    /\ cms.initialVersion = initialHeight
    /\ last.req.Height = initialHeight

\* C9: a FinalizeBlock whose hash differs from the hash of the optimistic run
\* resets the scheduler and answers with a synchronous execution of its own
\* request on the last committed content: the response, the working store and
\* the version committed afterwards hold the writes of that request at its
\* height and no write of the speculative run.
C9_AbortedRunDiscarded ==
    /\ (last.op = "FinalizeBlock" /\ last.path = "aborted")
          => /\ optimisticExec = NoOE
             /\ ifb.valid /\ ifb.req = last.req
             /\ ~last.res.nil
                   => /\ last.res.TxResults = RefTxResults(last.req)
                      /\ last.res.AppHash = HashOf(RefContent(cms.committed, last.req))
                      /\ cms.working = RefContent(cms.committed, last.req)
                      /\ finalizeBlockState.ctx.height = last.req.Height
             /\ last.res.nil
                   => /\ last.err # NoError
                      /\ cms.working = cms.committed
    /\ (last.op = "Commit" /\ last.path = "aborted")
          => /\ WritesAt(cms.committed, last.req.Height) = RefWrites(last.req)
             /\ last.commit.Hash = last.res.AppHash

C9_Witness ==
    /\ last.op = "Commit"
    /\ last.path = "aborted"
    /\ last.discarded = "completed"
    /\ ~last.res.nil
    /\ last.req.Txs = <<"x", "b">>

\* C10: a FinalizeBlock whose hash equals the hash of the optimistic run in
\* flight returns the error and the response of that run, the response with the
\* working hash as AppHash, and internalFinalizeBlock has been invoked once for
\* the block.
C10_SpeculativeResultReused ==
    (last.op = "FinalizeBlock" /\ last.path = "oe" /\ ~last.stale /\ phase # "crashed")
        => /\ BlockHash(last.req) = BlockHash(optimisticExec.request)
           /\ last.err = optimisticExec.run.err
           /\ last.res.nil <=> optimisticExec.run.res.nil
           /\ ~last.res.nil
                 => /\ last.res = [optimisticExec.run.res EXCEPT !.AppHash = HashOf(cms.working)]
                    /\ last.res.TxResults = RefTxResults(last.req)
           /\ optimisticExec.invocations = 1
           /\ ifb.valid /\ ifb.req = last.req

C10_Witness ==
    /\ last.op = "FinalizeBlock"
    /\ last.path = "oe"
    /\ ~last.stale
    /\ ~last.res.nil
    /\ optimisticExec.invocations = 1
    /\ last.req.Txs = <<"x", "b">>

\* C11: once a FinalizeBlock has consumed the result of a speculative run the
\* scheduler holds no initialized run: no FinalizeBlock waits on a run that was
\* consumed before, and no result is handed to a second FinalizeBlock.
C11_ConsumedRunReleased ==
    /\ optimisticExec.consumed => ~OEInitialized
    /\ phase = "waitOE" => ~optimisticExec.consumed
    /\ last.op = "FinalizeBlock" => ~last.stale

C11_Witness ==
    /\ phase = "waitOE"
    /\ optimisticExec.consumed
    /\ ~optimisticExec.run.res.nil
    /\ cms.version = optimisticExec.request.Height
    /\ pending.req.Height = cms.version + 1

HookErrors == {"preBlock failed", "beginBlock failed", "endBlock failed"}
HeightErrors == {"invalid height", "invalid height; expected"}

\* A step of the speculative goroutine taken with the cancellation signal set.
CancelledStep ==
    /\ OERunning
    /\ optimisticExec.aborted
    /\ optimisticExec'.initialized
    /\ optimisticExec'.run # optimisticExec.run

InSeq(x, seq) == \E i \in 1 .. Len(seq) : seq[i] = x

\* C12: a stage of internalFinalizeBlock that runs with the cancellation signal
\* set ends the invocation with a nil response and an error, the context's
\* cancellation error unless a hook or the height check failed before the
\* yield point; the invocation executes at most the transaction in front of
\* that yield point and nothing after it; a cancelled invocation never holds a
\* response, and no write of a cancelled run reaches the root store.
C12_CancelledAtYieldPoint ==
    /\ [][CancelledStep
             => LET r == optimisticExec'.run
                    q == optimisticExec.run
                IN /\ r.pc = "done"
                   /\ r.res.nil
                   /\ r.err \in {ErrCancelled} \cup HookErrors \cup HeightErrors
                   /\ r.err \in HookErrors => r.err = r.req.Fault \o " failed"
                   /\ r.err \in HeightErrors => q.pc = "start"
                   /\ r.executed <= q.executed + 1
                   /\ r.i <= q.i + 1
                   /\ Len(r.hooks) <= Len(q.hooks) + 2
                   /\ (q.pc = "txs" /\ q.i <= Len(q.req.Txs)) => r.hooks = q.hooks
                   /\ cms' = cms]_vars
    /\ [](/\ ErrCancelled \notin HookErrors \cup HeightErrors \cup {NoError}
          /\ optimisticExec.run.err = ErrCancelled
                => /\ optimisticExec.run.res.nil
                   /\ optimisticExec.run.pc = "done"
                   /\ optimisticExec.aborted
                   /\ optimisticExec.run.i <= Len(optimisticExec.run.req.Txs)
                         => ~InSeq("endBlock", optimisticExec.run.hooks)
          /\ (last.op = "FinalizeBlock" /\ last.discarded = "cancelled")
                => (cms.working.w \ cms.committed.w) \subseteq RefWrites(last.req)
          /\ (last.op = "Commit" /\ last.discarded = "cancelled")
                => WritesAt(cms.committed, last.req.Height) = RefWrites(last.req))

C12_Witness ==
    /\ last.op = "Commit"
    /\ last.discarded = "cancelled"
    /\ last.req.Txs = <<"x", "b">>
    /\ Tag(last.req.Height, "tx", "a") \notin cms.committed.w

\* The signal seen at the yield point after the first of two transactions.
CancelledAfterFirstTx ==
    /\ optimisticExec.run.err = ErrCancelled
    /\ optimisticExec.run.req.Txs = <<"x", "b">>
    /\ optimisticExec.run.i = 2

\* Writes of blocks: everything but what InitChain's initChainer wrote.
BlockWrites(ws) == {t \in ws : t[3] # "genesis"}

\* C13: writes that a FinalizeBlock call which ended with an error made to the
\* finalize branch are not seen by a later FinalizeBlock and are not committed:
\* the store a FinalizeBlock answers on, and the version committed after it,
\* hold at the height of the block the writes of its request and no other.
C13_FailedWritesDropped ==
    (last.op \in {"FinalizeBlock", "Commit"} /\ ~last.res.nil)
        => BlockWrites(WritesAt(cms.working, last.req.Height)) = RefWrites(last.req)

C13_Witness ==
    /\ last.op = "Commit"
    /\ last.path = "sync"
    /\ last.req.Txs = <<"x", "b">>
    /\ Tag(last.req.Height, "tx", "a") \in cms.committed.w

\* The same on every path but the synchronous run on a finalize state that exists.
FailedWritesDroppedUnlessSync == last.path # "sync" => C13_FailedWritesDropped

\* C14: when the internalFinalizeBlock invocation of a FinalizeBlock call
\* returned an error and a nil response, FinalizeBlock returns that error to
\* its caller and does not panic, with or without streaming listeners and with
\* or without a finalize state.
C14_ErrorHandedBack ==
    (last.op = "FinalizeBlock" /\ ifb.valid /\ ifb.req = last.req /\ ifb.returned /\ ifb.resNil)
        => /\ phase # "crashed"
           /\ last.panic = NoError
           /\ last.err = ifb.err
           /\ last.err # NoError

C14_Witness ==
    /\ last.op = "FinalizeBlock"
    /\ cfg.abciListeners
    /\ ifb.valid /\ ifb.returned /\ ifb.resNil
    /\ ifb.err = "invalid height; expected"
    /\ phase = "crashed"
    /\ last.panic = "nil pointer dereference"

\* The same with no streaming listener registered.
ErrorHandedBackNoListener == ~cfg.abciListeners => C14_ErrorHandedBack

NoListenerNilState ==
    /\ ~cfg.abciListeners
    /\ last.op = "FinalizeBlock"
    /\ last.err = "invalid height; expected"
    /\ finalizeBlockState.nil

RetentionReturned == last.op = "GetBlockRetentionHeight" /\ phase # "crashed"
MaxAgeNumBlocks ==
    LET cp == GetConsensusParams(finalizeBlockState)
    IN IF cp = NilParams THEN 0 ELSE cp[1].MaxAgeNumBlocks

\* C15: GetBlockRetentionHeight returns 0 whenever minRetainBlocks is 0, for
\* every commit height, evidence max age and snapshot retention.
C15_ZeroMinRetainBlocks ==
    (last.op = "GetBlockRetentionHeight" /\ cfg.minRetainBlocks = 0)
        => /\ phase # "crashed"
           /\ last.commit.RetainHeight = 0

C15_Witness ==
    /\ RetentionReturned
    /\ cfg.minRetainBlocks = 0
    /\ MaxAgeNumBlocks = 1
    /\ cfg.snapshotManager /\ cfg.snapshotRetention = 1
    /\ last.req.Height = MaxCommitHeight
    /\ last.commit.RetainHeight = 0

\* The constraints that are configured with a value above 0.
RetentionConstraints ==
    (IF MaxAgeNumBlocks > 0 THEN {MaxAgeNumBlocks} ELSE {})
        \cup (IF cfg.snapshotManager /\ cfg.snapshotRetention > 0
              THEN {cfg.snapshotRetention} ELSE {})
        \cup (IF cfg.minRetainBlocks > 0 THEN {cfg.minRetainBlocks} ELSE {})

MinOf(S) == CHOOSE x \in S : \A y \in S : x <= y

\* max(0, m), m the least commitHeight - c over the configured constraints.
RetentionByMinimum(commitHeight) ==
    LET m == MinOf({commitHeight - c : c \in RetentionConstraints})
    IN IF m <= 0 THEN 0 ELSE m

\* C16: with minRetainBlocks above 0, GetBlockRetentionHeight(commitHeight) is
\* max(0, m), m the minimum of commitHeight - c over the constraints c > 0
\* among the evidence MaxAgeNumBlocks, the snapshot retention and
\* minRetainBlocks; only a constraint that is zero or unset is left out.
C16_MinimumOfConstraints ==
    (RetentionReturned /\ cfg.minRetainBlocks > 0)
        => last.commit.RetainHeight = RetentionByMinimum(last.req.Height)

C16_Witness ==
    /\ RetentionReturned
    /\ cfg.minRetainBlocks = 1
    /\ ~cfg.snapshotManager
    /\ MaxAgeNumBlocks = 2
    /\ last.req.Height = 2
    /\ last.commit.RetainHeight = 1

\* The same when no constraint equals the commit height and minRetainBlocks
\* fits int64.
MinimumOfConstraintsUnlessZero ==
    (last.req.Height \notin RetentionConstraints /\ cfg.minRetainBlocks <= MaxInt64)
        => C16_MinimumOfConstraints

\* C17: for every commit height of at least 1 and every configuration the
\* returned retention height R satisfies 0 <= R < commitHeight.
C17_RetentionBelowCommitHeight ==
    (RetentionReturned /\ last.req.Height >= 1)
        => /\ 0 <= last.commit.RetainHeight
           /\ last.commit.RetainHeight < last.req.Height

C17_Witness ==
    /\ RetentionReturned
    /\ cfg.minRetainBlocks = MaxUint64
    /\ ~cfg.snapshotManager
    /\ MaxAgeNumBlocks = 0
    /\ last.req.Height = MaxCommitHeight
    /\ last.commit.RetainHeight = MaxCommitHeight + 1

\* The same for a minRetainBlocks that fits int64.
RetentionBelowCommitHeightInt64 ==
    cfg.minRetainBlocks <= MaxInt64 => C17_RetentionBelowCommitHeight

RetentionPositive ==
    /\ RetentionReturned
    /\ cfg.minRetainBlocks = 1
    /\ last.req.Height = MaxCommitHeight
    /\ last.commit.RetainHeight = MaxCommitHeight - 1

\* Evidence max age 100000, commit height 150000, no snapshot manager,
\* minRetainBlocks 0.
RetentionScenario ==
    /\ RetentionReturned
    /\ MaxAgeNumBlocks = 100000
    /\ last.req.Height = 150000
    /\ ~cfg.snapshotManager
    /\ cfg.minRetainBlocks = 0

\* C18, as stated: in the scenario the retention height returned is 50000.
C18_ScenarioReturns50000 == RetentionScenario => last.commit.RetainHeight = 50000

\* C18, amended: with evidence max age 100000, commit height 150000, no
\* snapshot manager and minRetainBlocks 0 the retention height returned is 0.
C18_ScenarioReturnsZero == RetentionScenario => last.commit.RetainHeight = 0

C18_Witness == RetentionScenario /\ last.commit.RetainHeight = 0

QueryAnswered == last.op = "Query" /\ last.query.out.res.Code = "OK"
HeightScoped == {"grpc", "store", "app"}

\* C19: a Query whose height is 0 is answered at the latest committed height:
\* on the gRPC, store and app routes the request handed to the route carries
\* that height, the query context of the gRPC route is at that height, and the
\* response of an answered query reports it.
C19_ZeroHeightIsLatest ==
    (last.op = "Query" /\ last.query.req.Height = 0 /\ last.query.out.route \in HeightScoped)
        => /\ last.query.out.handlerHeight = last.query.latest
           /\ (last.query.out.called = "grpcHandler")
                 => last.query.out.ctxHeight = last.query.latest
           /\ last.query.out.res.Code = "OK"
                 => last.query.out.res.Height = last.query.latest

C19_Witness ==
    /\ QueryAnswered
    /\ last.query.req.Height = 0
    /\ last.query.out.called = "grpcHandler"
    /\ last.query.latest = MaxHeight
    /\ last.query.out.res.Height = MaxHeight

QueryHeightOutOfRange ==
    \/ last.query.req.Height < 0
    \/ last.query.req.Height > last.query.latest

\* C20: on the gRPC, store and app routes a Query whose height is negative or
\* above the latest committed height returns an error, with no store read and
\* no callee invoked.
C20_OutOfRangeHeightRejected ==
    (last.op = "Query" /\ last.query.out.route \in HeightScoped /\ QueryHeightOutOfRange)
        => /\ last.query.out.res.Code # "OK"
           /\ ~last.query.out.storeRead
           /\ last.query.out.called = "none"

C20_Witness ==
    /\ last.op = "Query"
    /\ last.query.out.route = "store"
    /\ last.query.req.Height > last.query.latest
    /\ last.query.latest > 0
    /\ last.query.out.called = "storeQuery"
    /\ last.query.out.storeRead

\* An app query for the version at a negative height is answered.
NegativeHeightAnswered ==
    /\ last.op = "Query"
    /\ last.query.out.route = "app"
    /\ last.query.req.Height < 0
    /\ last.query.out.res = ResponseQuery("OK", last.query.req.Height, "version")

\* The same on the gRPC route alone.
OutOfRangeHeightRejectedGRPC ==
    last.query.out.route = "grpc" => C20_OutOfRangeHeightRejected

\* The height a Query is about: the latest committed height for a height of 0.
ResolvedHeight ==
    IF last.query.req.Height = 0 THEN last.query.latest ELSE last.query.req.Height

ProofAtFirstHeights ==
    /\ last.op = "Query"
    /\ last.query.req.Prove
    /\ ResolvedHeight <= 1
    /\ last.query.out.route \in {"grpc", "store"}

ProofBeforeFirstCommit ==
    /\ ProofAtFirstHeights
    /\ last.query.out.route = "grpc"
    /\ last.query.latest = 0
    /\ last.query.out.res.Code = "ErrInvalidHeight"

\* A step that is a Query which met a panic.
PanickedQueryStep == last'.op = "Query" /\ last'.query.out.panicked

\* C22: a panic raised during Query processing (query-context creation, gRPC
\* handler, store query, simulation, peer filter) does not reach the caller:
\* Query returns the error response of ErrPanic, the process goes on, and the
\* finalize state, the check state and the store are unchanged.
C22_QueryPanicRecovered ==
    [][PanickedQueryStep => /\ last'.query.out.res.Code = "ErrPanic"
                            /\ phase' = phase
                            /\ finalizeBlockState' = finalizeBlockState
                            /\ checkState' = checkState
                            /\ cms' = cms]_vars

C22_Witness ==
    /\ last.op = "Query"
    /\ last.query.out.panicked
    /\ last.query.out.called = "peerFilter"
    /\ last.query.out.res.Code = "ErrPanic"
    /\ phase = "finalized"

\* Each callee's panic is met.
PanicInStoreQuery ==
    last.op = "Query" /\ last.query.out.panicked /\ last.query.out.called = "storeQuery"
PanicInSimulate ==
    last.op = "Query" /\ last.query.out.panicked /\ last.query.out.called = "Simulate"
PanicInGRPCHandler ==
    last.op = "Query" /\ last.query.out.panicked /\ last.query.out.called = "grpcHandler"

\* The request path without its leading empty segment.
Segments(p) == IF Len(p) > 0 /\ p[1] = "" THEN Tail(p) ELSE p

UnknownFilterType(p) ==
    /\ Len(Segments(p)) >= 4
    /\ Segments(p)[1] = "p2p"
    /\ Segments(p)[2] = "filter"
    /\ Segments(p)[3] \notin {"addr", "id"}

\* Paths that name no query: empty, an unknown first segment, app without a
\* known second segment, p2p with fewer than 4 segments, with a command other
\* than filter, or with a filter type other than addr and id.
Unrecognized(p) ==
    /\ p # BroadcastTxPath
    /\ p \notin GRPCRoutes
    /\ \/ Len(Segments(p)) = 0
       \/ /\ Len(Segments(p)) > 0
          /\ \/ Segments(p)[1] \notin {"app", "store", "p2p"}
             \/ /\ Segments(p)[1] = "app"
                /\ \/ Len(Segments(p)) < 2
                   \/ /\ Len(Segments(p)) >= 2
                      /\ Segments(p)[2] \notin {"simulate", "version"}
             \/ /\ Segments(p)[1] = "p2p"
                /\ \/ Len(Segments(p)) < 4
                   \/ /\ Len(Segments(p)) >= 4
                      /\ Segments(p)[2] # "filter"
       \/ UnknownFilterType(p)

\* C23: a Query with an unrecognized or malformed path returns a response with
\* an error code, never a success response.
C23_UnrecognizedPathIsError ==
    (last.op = "Query" /\ Unrecognized(last.query.req.Path))
        => last.query.out.res.Code # "OK"

C23_Witness ==
    /\ last.op = "Query"
    /\ UnknownFilterType(last.query.req.Path)
    /\ last.query.out.res = ZeroResponse

\* The same but for the filter type.
UnrecognizedPathIsErrorButFilterType ==
    (last.op = "Query" /\ Unrecognized(last.query.req.Path)
        /\ ~UnknownFilterType(last.query.req.Path))
        => last.query.out.res.Code = "ErrUnknownRequest"

QueryFailed == last.op = "Query" /\ last.query.out.res.Code # "OK"

\* C24: every error response of Query carries the resolved height of the
\* query in its Height field, whichever check or route produced the error.
C24_ErrorCarriesHeight == QueryFailed => last.query.out.res.Height = ResolvedHeight

C24_Witness ==
    /\ QueryFailed
    /\ last.query.out.route = "grpc"
    /\ last.query.out.called = "none"
    /\ last.query.req.Height > last.query.latest
    /\ last.query.out.res = ResponseQuery("ErrInvalidHeight", 0, "")

\* The errors that come back from the gRPC handler and from the store query
\* do carry the height.
ErrorOfCalleeCarriesHeight ==
    (QueryFailed /\ ~last.query.out.panicked
        /\ last.query.out.called \in {"grpcHandler", "storeQuery"})
        => last.query.out.res.Height = ResolvedHeight

\* A recovered panic does not.
PanicAtHeightWithoutHeight ==
    /\ QueryFailed
    /\ last.query.out.panicked
    /\ ResolvedHeight > 0
    /\ last.query.out.res.Height = 0

\* The writes of the block in progress that workingHash has put into the root store.
WritesInProgress == cms.working.w \ cms.committed.w

\* A Query at the latest committed height that read the store.
QueryAtLatest ==
    /\ last.op = "Query"
    /\ last.query.out.view # <<>>
    /\ ResolvedHeight = last.query.latest

\* C25: a Query between FinalizeBlock(H), working-hash write included, and
\* Commit(H), at height 0 or H-1, reads the content committed as H-1 and none
\* of the writes of block H; and no Query changes the finalize state, the check
\* state or the store.
C25_QueryReadsCommitted ==
    /\ [](QueryAtLatest => /\ last.query.out.view[1] = cms.committed
                           /\ last.query.out.view[1].w \cap WritesInProgress = {})
    /\ [][last'.op = "Query" => /\ finalizeBlockState' = finalizeBlockState
                                /\ checkState' = checkState
                                /\ cms' = cms]_vars

C25_Witness ==
    /\ QueryAtLatest
    /\ phase = "finalized"
    /\ last.query.req.Height = 0
    /\ finalizeBlockState.ctx.height = last.query.latest + 1
    /\ last.query.out.called = "grpcHandler"
    /\ WritesInProgress # {}
    /\ last.query.out.view[1] = cms.committed

\* The same for the store route, at the height H-1 given in the request.
StoreQueryDuringBlock ==
    /\ QueryAtLatest
    /\ phase = "finalized"
    /\ last.query.req.Height = finalizeBlockState.ctx.height - 1
    /\ last.query.out.called = "storeQuery"
    /\ WritesInProgress # {}

\* A Query at an earlier height reads the content committed as that height.
QueryReadsItsVersion ==
    (last.op = "Query" /\ last.query.out.view # <<>>)
        => <<ResolvedHeight, last.query.out.view[1]>> \in cms.versions

HaltHeightPassed(rec) == cfg.haltHeight > 0 /\ rec.req.Height > cfg.haltHeight
HaltTimePassed(rec) == cfg.haltTime > 0 /\ rec.req.Time > cfg.haltTime

\* C26: with a halt height h > 0, internalFinalizeBlock for height h is
\* processed (all hooks run and a response is returned when h is the expected
\* height and the halt time is not passed) and for a height above h returns
\* the halt error; with a halt time t > 0 a block whose time is above t gets
\* the halt error; the halt error comes with no response, no hook, no
\* transaction and no write to a mode state, and FinalizeBlock then leaves the
\* store as it was; with both values 0 there is no halt error.
C26_HaltCheck ==
    /\ [](ifb.valid =>
            /\ HaltHeightPassed(ifb) => ifb.err = ErrHalt
            /\ HaltTimePassed(ifb) => ifb.err = ErrHalt
            /\ (cfg.haltHeight > 0 /\ ifb.req.Height = cfg.haltHeight /\ ~HaltTimePassed(ifb))
                  => /\ ifb.err # ErrHalt
                     /\ ~InvalidHeight(ifb) => (~ifb.resNil /\ Len(ifb.hooks) = 3)
            /\ ifb.err = ErrHalt
                  => (ifb.resNil /\ ifb.hooks = <<>> /\ ifb.executed = 0 /\ ~ifb.wrote)
            /\ (cfg.haltHeight = 0 /\ cfg.haltTime = 0) => ifb.err # ErrHalt)
    /\ [][(last'.op = "FinalizeBlock" /\ last'.err = ErrHalt)
             => /\ last'.res.nil
                /\ cms' = cms
                /\ finalizeBlockState' = finalizeBlockState
                /\ checkState' = checkState]_vars

C26_Witness ==
    /\ last.op = "FinalizeBlock"
    /\ last.err = ErrHalt
    /\ cfg.haltHeight = 1
    /\ cfg.haltTime = 0
    /\ cms.version = 1
    /\ last.req.Height = 2

\* The block at the halt height is processed and committed.
HaltHeightCommitted ==
    /\ last.op = "Commit"
    /\ cfg.haltHeight = MaxHalt
    /\ cms.version = cfg.haltHeight

\* The halt time alone refuses a block at a valid height.
HaltedByTime ==
    /\ last.op = "FinalizeBlock"
    /\ last.err = ErrHalt
    /\ cfg.haltHeight = 0
    /\ last.req.Height = cms.version + 1

CommitAtHaltHeight ==
    /\ last.op = "Commit"
    /\ cfg.haltHeight > 0
    /\ last.commit.Version = cfg.haltHeight

\* C27: with a halt height other than 0, the Commit whose committed height is
\* the halt height invokes the halt procedure, once the state of that height
\* is committed.
C27_CommitAtHaltHeightHalts ==
    CommitAtHaltHeight => (last.commit.halt /\ cms.version = cfg.haltHeight)

C27_Witness ==
    /\ CommitAtHaltHeight
    /\ cms.version = cfg.haltHeight
    /\ cms.committed = cms.working
    /\ ~last.commit.halt
    /\ phase = "idle"

\* The state of the halt height is committed all the same.
HaltHeightStateCommitted ==
    CommitAtHaltHeight => (cms.version = cfg.haltHeight /\ cms.committed = cms.working)

\* The retention height for a commit height under given consensus parameters.
RetentionWith(cp, commitHeight) ==
    LET age == IF cp = NilParams THEN 0 ELSE cp[1].MaxAgeNumBlocks
        byAge == IF age > 0 THEN commitHeight - age ELSE 0
        bySnapshot == IF cfg.snapshotManager /\ cfg.snapshotRetention > 0
                      THEN minNonZero(byAge, commitHeight - cfg.snapshotRetention) ELSE byAge
        r == minNonZero(bySnapshot, commitHeight - cfg.minRetainBlocks)
    IN IF cfg.minRetainBlocks = 0 \/ r <= 0 THEN 0 ELSE r

\* C28: a Commit leaves the finalize state nil and the check state a branch
\* without writes over the store just committed, with the header of the
\* committed block; the RetainHeight of its response is the retention height
\* of the committed height under the consensus parameters the block's finalize
\* context ended with.
C28_CommitResetsStates ==
    [][CommitStep => /\ finalizeBlockState' = NilState
                     /\ checkState' = [nil |-> FALSE, ms |-> EmptyBranch,
                                       ctx |-> Context(cms'.version)]
                     /\ BranchView(cms'.working, checkState'.ms) = cms'.committed
                     /\ last'.commit.RetainHeight =
                            RetentionWith(GetConsensusParams(finalizeBlockState), cms'.version)]_vars

C28_Witness ==
    /\ last.op = "Commit"
    /\ cfg.minRetainBlocks = 2
    /\ cms.version = 2
    /\ cms.committed.cp = UpdatedParams
    /\ last.commit.RetainHeight = 1
    /\ finalizeBlockState.nil
    /\ checkState.ctx.height = 2

\* The parameters are those of the block being committed, changed in that block.
RetentionWithParamsOfBlock ==
    /\ last.op = "Commit"
    /\ cms.version = 2
    /\ <<1, [w |-> {Tag(0, "hook", "genesis")} \cup RefWrites(Request(1, <<"a">>, "none", 1)),
             cp |-> Params(10, 0)]>> \in cms.versions
    /\ cms.committed.cp = UpdatedParams
    /\ last.commit.RetainHeight = 1

\* The events of the transactions of a block, in input order.
RECURSIVE TxEvents(_)
TxEvents(txs) ==
    IF txs = <<>> THEN <<>> ELSE RefTxResult(Head(txs)).Events \o TxEvents(Tail(txs))

Responded == last.op = "FinalizeBlock" /\ ~last.res.nil

\* C29: the Events of a FinalizeBlock response are the pre-block events, the
\* begin-block events, the events of every transaction in input order and the
\* end-block events, concatenated in that order.
C29_EventsAggregated ==
    Responded
        => last.res.Events =
               <<HookEvent("preBlock"), HookEvent("beginBlock")>>
                   \o TxEvents(last.req.Txs) \o <<HookEvent("endBlock")>>

C29_Witness ==
    /\ Responded
    /\ last.req.Txs = <<"a", "x", "b">>
    /\ last.res.Events = <<HookEvent("preBlock"), HookEvent("beginBlock"), HookEvent("endBlock")>>
    /\ last.res.TxResults[1].Events = <<<<"tx", "a">>>>
    /\ last.res.TxResults[3].Events = <<<<"tx", "b">>>>

\* The events of the hooks are there, in emission order; those of a
\* transaction are in its own result.
HookEventsInOrder ==
    Responded
        => /\ last.res.Events =
                  <<HookEvent("preBlock"), HookEvent("beginBlock"), HookEvent("endBlock")>>
           /\ \A i \in 1 .. Len(last.req.Txs) :
                  last.res.TxResults[i].Events = RefTxResult(last.req.Txs[i]).Events

\* The block holds a transaction that stores consensus parameters.
BlockChangesParams == \E i \in 1 .. Len(last.req.Txs) : last.req.Txs[i] = "p"

\* C30: the ConsensusParamUpdates of a FinalizeBlock response are nil when the
\* block did not change the consensus parameters, and are not nil only when
\* the block changed them.
C30_ParamUpdatesNilIfUnchanged ==
    Responded => (last.res.ConsensusParamUpdates # NilParams => BlockChangesParams)

C30_Witness ==
    /\ Responded
    /\ last.req.Height = 2
    /\ ~BlockChangesParams
    /\ cms.committed.cp = Params(10, 0)
    /\ last.res.ConsensusParamUpdates = Params(10, 0)

\* The field holds the parameters in force at the end of the block, changed or not.
ParamUpdatesAreCurrentParams ==
    Responded => last.res.ConsensusParamUpdates = cms.working.cp

\* A block that changes them reports the new ones.
ParamUpdatesOfChangingBlock ==
    /\ Responded
    /\ BlockChangesParams
    /\ cms.committed.cp = Params(10, 0)
    /\ last.res.ConsensusParamUpdates = UpdatedParams

\* The limit of the block gas meter under given consensus parameters.
GasLimitOf(cp) == IF cp # NilParams /\ cp[1].MaxGas > 0 THEN cp[1].MaxGas ELSE 0

\* The parameters in force when the block started: those of the finalize
\* context, read before any hook of the block has run.
ParamsAtBlockStart == finalizeBlockState.ctx.cp

\* C31: a consensus-parameter change written during block H (by the pre-block
\* hook, the begin-block hook, a transaction or the end-block hook) does not
\* change the block gas limit applied to the transactions of H, and is in
\* force from block H+1 on.
C31_ParamChangeNextBlock ==
    (last.op = "FinalizeBlock" /\ phase = "finalized")
        => /\ finalizeBlockState.ctx.gasLimit = GasLimitOf(ParamsAtBlockStart)
           /\ cms.version > 0 => ParamsAtBlockStart = cms.committed.cp

C31_Witness ==
    /\ last.op = "FinalizeBlock"
    /\ phase = "finalized"
    /\ cfg.paramHook = "beginBlock"
    /\ ParamsAtBlockStart = Params(10, 0)
    /\ finalizeBlockState.ctx.gasLimit = GasLimitOf(UpdatedParams)
    /\ Len(last.res.TxResults) > 0

\* A change made by a transaction or by the end-block hook leaves the limit of
\* its block alone and is in force in the next block.
ParamChangeAfterBeginBlock ==
    cfg.paramHook \in {"none", "endBlock"} => C31_ParamChangeNextBlock

ChangedByTxInForceNextBlock ==
    /\ last.op = "FinalizeBlock"
    /\ phase = "finalized"
    /\ cfg.paramHook = "none"
    /\ last.req.Height = 2
    /\ ParamsAtBlockStart = UpdatedParams
    /\ finalizeBlockState.ctx.gasLimit = GasLimitOf(UpdatedParams)
    /\ <<1, [w |-> {Tag(0, "hook", "genesis")} \cup RefWrites(Request(1, <<"a">>, "none", 1))
                      \cup {Tag(1, "tx", "p")},
             cp |-> UpdatedParams]>> \in cms.versions

-----------------------------------------------------------------------------
(* Proposal state isolation *)

ProposalTags(content) == {t \in content.w : t[2] = "proposal"}
ProposalCall == last.op \in {"PrepareProposal", "ProcessProposal"} /\ phase # "crashed"
ProposalModeState ==
    IF last.op = "PrepareProposal" THEN prepareProposalState ELSE processProposalState
ProposalMode == IF last.op = "PrepareProposal" THEN "prepare" ELSE "process"

\* C32: a proposal call drops what its mode state held and runs its handler on
\* a fresh branch: the handler sees the committed store (the finalize state's
\* view at the initial height) without any write of an earlier handler, the
\* mode state then holds this call's write at most, and no handler write is
\* ever in the finalize state, the working store or the committed store.
C32_ProposalOnFreshBranch ==
    /\ ProposalCall =>
          /\ ProposalTags(last.proposal.view) = {}
          /\ last.proposal.view =
                IF last.proposal.req.Height = initialHeight
                THEN BranchView(cms.working, finalizeBlockState.ms)
                ELSE cms.committed
          /\ ProposalModeState.ms.w \subseteq
                {ProposalWrite(last.proposal.req.Height, ProposalMode)}
    /\ ProposalTags(cms.working) = {}
    /\ ProposalTags(cms.committed) = {}
    /\ ~finalizeBlockState.nil => ProposalTags(finalizeBlockState.ms) = {}

\* A proposal call that discarded the writes of an earlier handler of its mode,
\* while the other mode's state still holds writes.
C32_Witness ==
    /\ ProposalCall
    /\ last.proposal.discarded # {}
    /\ last.proposal.discarded # ProposalModeState.ms.w
    /\ cms.version >= 1
    /\ prepareProposalState.ms.w # {}
    /\ processProposalState.ms.w # {}

\* C33: a panic of the handler is recovered: ProcessProposal answers REJECT,
\* PrepareProposal answers the request's transactions unchanged, and the
\* process keeps running.
C33_HandlerPanicRecovered ==
    (last.op \in {"PrepareProposal", "ProcessProposal"} /\ last.proposal.handler = "panic"
        /\ last.proposal.req.Height >= 1
        /\ ~(last.proposal.req.Height = initialHeight /\ finalizeBlockState.nil)) =>
        /\ phase # "crashed"
        /\ last.proposal.recovered
        /\ last.op = "ProcessProposal" => last.proposal.Status = "REJECT"
        /\ last.op = "PrepareProposal" => last.proposal.Txs = last.proposal.req.Txs

\* A handler that panicked on a proposal it would have changed.
C33_Witness ==
    /\ last.op = "PrepareProposal"
    /\ last.proposal.handler = "panic"
    /\ last.proposal.recovered
    /\ phase = "idle"
    /\ last.proposal.Txs = <<"x", "b">>
    /\ prepareProposalHandler(last.proposal.req) # last.proposal.req.Txs

\* The same for ProcessProposal.
ProcessPanicRejected ==
    /\ last.op = "ProcessProposal"
    /\ last.proposal.handler = "panic"
    /\ phase = "idle"
    /\ last.proposal.Status = "REJECT"
    /\ processProposalHandler(last.proposal.req) = "ACCEPT"

\* The mode states that are set (not nil) with a context of height h.
ModeStates ==
    [finalize |-> finalizeBlockState, prepare |-> prepareProposalState,
     process |-> processProposalState]
ActiveModes(h) ==
    {m \in DOMAIN ModeStates : ~ModeStates[m].nil /\ ModeStates[m].ctx.height = h}

\* C34: for a height, at most one of the finalize, prepare-proposal and
\* process-proposal states is set.
C34_AtMostOneModeState ==
    \A h \in 1 .. MaxHeight + 1 : Cardinality(ActiveModes(h)) <= 1

\* The three states set for one height: the block was proposed, voted on and
\* executed, and none of the proposal states was reset.
C34_Witness ==
    /\ phase = "idle"
    /\ \E h \in 1 .. MaxHeight + 1 : ActiveModes(h) = {"finalize", "prepare", "process"}
    /\ last.op = "FinalizeBlock"

\* Only Commit resets a mode state, and only the finalize state.
ProposalStatesNeverReset ==
    [][/\ ~prepareProposalState.nil => ~prepareProposalState'.nil
       /\ ~processProposalState.nil => ~processProposalState'.nil]_vars

-----------------------------------------------------------------------------
(* Routing precedence *)

SlashRoutes == {"app", "store", "p2p"}

\* C35: the broadcast path is refused before any router is consulted, also
\* with a gRPC handler registered for it; any other path with a registered
\* gRPC handler goes to that handler, also where the slash-split dispatch knows
\* its first segment; any other path goes to the one handler its first segment
\* names, and to none if it names none.
C35_RoutingPrecedence ==
    last.op = "Query" =>
        LET p == last.query.req.Path
            path == SplitABCIQueryPath(p)
            out == last.query.out
        IN /\ p = BroadcastTxPath =>
                  /\ out.route = "none"
                  /\ out.called = "none"
                  /\ out.res.Code = "ErrInvalidRequest"
           /\ (p # BroadcastTxPath /\ p \in GRPCRoutes) => out.route = "grpc"
           /\ (p # BroadcastTxPath /\ p \notin GRPCRoutes) =>
                  IF Len(path) > 0 /\ path[1] \in SlashRoutes
                  THEN out.route = path[1]
                  ELSE out.route = "none" /\ out.res.Code = "ErrUnknownRequest"

\* The broadcast path refused while a handler is registered for it.
C35_Witness ==
    /\ last.op = "Query"
    /\ last.query.req.Path = BroadcastTxPath
    /\ BroadcastTxPath \in GRPCRoutes
    /\ last.query.out.res.Code = "ErrInvalidRequest"
    /\ cms.version >= 1

\* A registered path that the slash-split dispatch would send to the store.
GRPCBeforeSlashSplit ==
    /\ last.op = "Query"
    /\ last.query.req.Path = StoreServicePath
    /\ SplitABCIQueryPath(StoreServicePath)[1] = "store"
    /\ last.query.out.route = "grpc"
    /\ last.query.out.called = "grpcHandler"

-----------------------------------------------------------------------------
(* State sync result codes *)

OfferCall == last.op = "OfferSnapshot"
ChunkCall == last.op = "ApplySnapshotChunk"

\* C39: OfferSnapshot answers ACCEPT exactly when a manager is configured, the
\* snapshot is not nil, its metadata decodes and Restore succeeded; without a
\* manager it answers ABORT; with one, REJECT for a nil snapshot, for metadata
\* that does not decode and for an invalid-metadata error of Restore,
\* REJECT_FORMAT for an unknown-format error, ABORT for any other error.
C39_OfferSnapshotResult ==
    OfferCall =>
        LET req == last.snapshot.offer
            err == last.snapshot.err
            Result == last.snapshot.res.Result
        IN /\ Result = "ACCEPT" <=>
                  (cfg.snapshotManager /\ ~req.Snapshot.nil
                      /\ SnapshotFromABCI(req.Snapshot) = "nil" /\ err = "nil")
           /\ ~cfg.snapshotManager => Result = "ABORT"
           /\ cfg.snapshotManager =>
                  /\ req.Snapshot.nil => Result = "REJECT"
                  /\ (~req.Snapshot.nil /\ SnapshotFromABCI(req.Snapshot) # "nil") =>
                         Result = "REJECT"
                  /\ err = "ErrInvalidMetadata" => Result = "REJECT"
                  /\ err = "ErrUnknownFormat" => Result = "REJECT_FORMAT"
                  /\ err \notin {"none", "nil", "ErrInvalidMetadata", "ErrUnknownFormat"} =>
                         Result = "ABORT"

\* A snapshot that decodes, refused by Restore for its metadata.
C39_Witness ==
    /\ OfferCall
    /\ cfg.snapshotManager
    /\ ~last.snapshot.offer.Snapshot.nil
    /\ last.snapshot.err = "ErrInvalidMetadata"
    /\ last.snapshot.res.Result = "REJECT"

\* The other results of OfferSnapshot.
OfferAccepted == OfferCall /\ last.snapshot.res.Result = "ACCEPT"
OfferRejectedFormat == OfferCall /\ last.snapshot.res.Result = "REJECT_FORMAT"
OfferAbortedOnError ==
    OfferCall /\ last.snapshot.err = "ErrConflict" /\ last.snapshot.res.Result = "ABORT"

\* C40: ApplySnapshotChunk answers ACCEPT exactly when a manager is configured
\* and RestoreChunk succeeded; on a chunk hash mismatch RETRY, with the index
\* of the request as the only chunk to refetch and the sender of the request as
\* the only sender to reject; otherwise ABORT with nothing to refetch or reject.
C40_ApplySnapshotChunkResult ==
    ChunkCall =>
        LET req == last.snapshot.chunk
            err == last.snapshot.err
            res == last.snapshot.res
        IN /\ res.Result = "ACCEPT" <=> (cfg.snapshotManager /\ err = "nil")
           /\ err = "ErrChunkHashMismatch" =>
                  res = SnapshotResponse("RETRY", <<req.Index>>, <<req.Sender>>)
           /\ err \notin {"nil", "ErrChunkHashMismatch"} =>
                  res = SnapshotResponse("ABORT", <<>>, <<>>)
           /\ res.Result # "RETRY" => res.RefetchChunks = <<>> /\ res.RejectSenders = <<>>

\* A chunk other than the first, from a named sender, whose hash did not match.
C40_Witness ==
    /\ ChunkCall
    /\ last.snapshot.err = "ErrChunkHashMismatch"
    /\ last.snapshot.chunk.Index > 0
    /\ last.snapshot.chunk.Sender = "peer2"
    /\ last.snapshot.res.Result = "RETRY"

\* The other results of ApplySnapshotChunk.
ChunkAccepted == ChunkCall /\ last.snapshot.res.Result = "ACCEPT"
ChunkAbortedWithoutManager ==
    ChunkCall /\ ~cfg.snapshotManager /\ last.snapshot.res.Result = "ABORT"

-----------------------------------------------------------------------------
(* Reads and writes of the check state's context *)

\* C36: no CheckTx reads the check state's context while SetContext holds the
\* state's lock to write it.
C36_ReadsSerialized ==
    (last.op = "CheckTx" /\ phase # "crashed") => ~last.checkTx.overlapped

\* A CheckTx that read, inside a SetContext, a context the check state held
\* neither before nor after it.
C36_Witness ==
    /\ last.op = "CheckTx"
    /\ last.checkTx.overlapped
    /\ last.checkTx.ctx \notin {last.checkTx.old, last.checkTx.new}

\* A read outside a SetContext returns the context held.
ReadOutsideWrite ==
    (last.op = "CheckTx" /\ phase # "crashed" /\ ~last.checkTx.overlapped) =>
        last.checkTx.ctx = checkState.ctx

\* The lock is held exactly inside SetContext.
LockHeldInSetContext == phase # "crashed" => (mtx = "locked" <=> phase = "setContext")

-----------------------------------------------------------------------------
(* FinalizeBlock and the speculative run *)

\* A step in which FinalizeBlock went past WaitResult.
PastWaitResult == phase = "waitOE" /\ phase' # "waitOE"
\* A step in which FinalizeBlock executed the block itself.
SynchronousRun ==
    /\ last' # last
    /\ last'.op = "FinalizeBlock"
    /\ last'.path \in {"sync", "replay", "aborted"}
\* A step of the speculative goroutine.
SpeculativeStep == optimisticExec'.run # optimisticExec.run /\ optimisticExec'.initialized

\* C37: FinalizeBlock goes past WaitResult only once the speculative run has
\* terminated; a step that executes the block synchronously, the reset of the
\* finalize state of an aborted run included, is taken only while no
\* speculative run is in flight, and leaves none in flight.
C37_SynchronousAfterSpeculative ==
    [][/\ PastWaitResult => optimisticExec.run.pc = "done"
       /\ SynchronousRun => (~OERunning /\ ~OERunning')
       /\ (SynchronousRun /\ last'.path = "aborted") =>
              (optimisticExec.run.pc = "done" /\ ~optimisticExec'.initialized)]_vars

\* A block executed synchronously after a speculative run on another block had
\* been aborted and had stopped at a yield point.
C37_Witness ==
    /\ last.op = "FinalizeBlock"
    /\ last.path = "aborted"
    /\ last.discarded = "cancelled"
    /\ phase = "finalized"
    /\ ~OEInitialized
    /\ ~finalizeBlockState.nil
    /\ finalizeBlockState.ctx.height = last.req.Height

\* The speculative goroutine runs only while no FinalizeBlock is executing the
\* block: before FinalizeBlock is called, or while it waits.
SpeculativeStepsWhileWaiting ==
    [][(SpeculativeStep /\ optimisticExec.initialized /\ optimisticExec.run.pc # "start"
            /\ optimisticExec'.run.req = optimisticExec.run.req) =>
          (phase \in {"idle", "waitOE"} /\ phase' = phase)]_vars

\* C38: a FinalizeBlock that waits for the speculative run eventually gets
\* past WaitResult and returns: the process is then idle (an error was
\* returned) or holds the finalized block; it has not panicked.
C38_FinalizeBlockReturns == (phase = "waitOE") ~> (phase \in {"idle", "finalized"})

\* A FinalizeBlock that did not return: it was handed the response of a run
\* consumed by an earlier call, after Commit had reset the finalize state.
C38_Witness ==
    /\ last.op = "FinalizeBlock"
    /\ last.path = "oe"
    /\ last.stale
    /\ phase = "crashed"
    /\ finalizeBlockState.nil

\* A FinalizeBlock that waits for a run no earlier call has consumed returns.
FreshRunReturns ==
    (phase = "waitOE" /\ ~optimisticExec.consumed) ~> (phase \in {"idle", "finalized"})

\* A FinalizeBlock that returned after it had aborted a run that was still in
\* flight when it was called.
AbortedRunReturned ==
    /\ last.op = "FinalizeBlock"
    /\ last.path = "aborted"
    /\ last.discarded = "cancelled"
    /\ phase = "finalized"
    /\ last.err = NoError
    /\ ~last.res.nil

\* A FinalizeBlock waiting for a run that has stages left.
WaitingForRun == phase = "waitOE" /\ OERunning

\* No FinalizeBlock waits forever: WaitResult unblocks and the call ends.
WaitResultUnblocks == (phase = "waitOE") ~> (phase # "waitOE")

\* With a matching run FinalizeBlock returns that run's response.
MatchingRunReturns == (phase = "waitOE" /\ ~pending.aborted) ~> (last.path = "oe")

====
